---- MODULE Spec2Model ----
(***************************************************************************)
(* A model of gop (github.com/samuelfneumann/gop): extended operators for  *)
(* a computational-graph tensor engine and a batched Normal distribution.  *)
(*                                                                         *)
(* Conventions.  Axes are 0-based as in the Go source; TLA+ sequences are  *)
(* 1-based, so shape[axis] of the source is shape[axis + 1] here.  A       *)
(* tensor (and the value of a graph node) is a record [shape, data] whose  *)
(* data is the flat row-major backing.  Element values are exact rationals *)
(* <<num, den>> standing for the floating point numbers of the source.     *)
(* A call ends in one of: Ok(value), Err (an error value is returned) or   *)
(* Panic (the Go runtime aborts the call: index or slice out of range).    *)
(***************************************************************************)
EXTENDS Integers, Sequences, FiniteSets, TLC

VARIABLES call, ret

vars == <<call, ret>>

\* Bounds of the model
MaxDims == 3
MaxExtent == 3
MaxSize == 27

NotCalled == [kind |-> "none"]
Ok(v) == [kind |-> "ok", val |-> v]
Err == [kind |-> "err"]
Panic == [kind |-> "panic"]

----------------------------------------------------------------------------
(* Exact rational arithmetic for element values *)

Abs(n) == IF n < 0 THEN -n ELSE n

RECURSIVE Gcd(_, _)
Gcd(a, b) == IF b = 0 THEN a ELSE Gcd(b, a % b)

Norm(q) ==
    LET g == Gcd(Abs(q[1]), Abs(q[2]))
        s == IF q[2] < 0 THEN -1 ELSE 1
    IN  IF q[1] = 0 THEN <<0, 1>> ELSE <<(s * q[1]) \div g, (s * q[2]) \div g>>

Rat(n) == <<n, 1>>
RatAdd(a, b) == Norm(<<a[1] * b[2] + b[1] * a[2], a[2] * b[2]>>)
RatSub(a, b) == Norm(<<a[1] * b[2] - b[1] * a[2], a[2] * b[2]>>)
RatMul(a, b) == Norm(<<a[1] * b[1], a[2] * b[2]>>)
RatDiv(a, b) == Norm(<<a[1] * b[2], a[2] * b[1]>>)
RatLe(a, b) == a[1] * b[2] <= b[1] * a[2]

----------------------------------------------------------------------------
(* Shapes and row-major tensors (the host engine's tensor.Shape / Dense)   *)

RECURSIVE ProdInts(_)
ProdInts(s) == IF s = <<>> THEN 1 ELSE Head(s) * ProdInts(Tail(s))

Dims(x) == Len(x.shape)

\* s[:n] and s[n:] of Go, for 0 <= n <= len(s)
Take(s, n) == SubSeq(s, 1, n)
Drop(s, n) == SubSeq(s, n + 1, Len(s))

RECURSIVE ShapesOfLen(_)
ShapesOfLen(n) ==
    IF n = 0 THEN {<<>>}
    ELSE {<<e>> \o s : e \in 1..MaxExtent, s \in ShapesOfLen(n - 1)}

Shapes ==
    {s \in UNION {ShapesOfLen(n) : n \in 0..MaxDims} : ProdInts(s) <= MaxSize}

\* The flat offset of the element at coordinates c (0-based) in shape s
RECURSIVE Offset(_, _)
Offset(s, c) ==
    IF s = <<>> THEN 0
    ELSE c[1] * ProdInts(Tail(s)) + Offset(Tail(s), Tail(c))

\* The coordinates (0-based) of flat offset k in shape s
RECURSIVE Coord(_, _)
Coord(s, k) ==
    IF s = <<>> THEN <<>>
    ELSE <<k \div ProdInts(Tail(s))>> \o Coord(Tail(s), k % ProdInts(Tail(s)))

At(x, c) == x.data[Offset(x.shape, c) + 1]

\* c with entry v inserted so that it ends at 0-based position axis
InsertAt(c, axis, v) == Take(c, axis) \o <<v>> \o Drop(c, axis)
\* c with the entry at 0-based position axis removed
RemoveAt(c, axis) == Take(c, axis) \o Drop(c, axis + 1)

\* A tensor of shape s whose element at flat offset k is k + 2
Iota(s) == [shape |-> s, data |-> [k \in 1..ProdInts(s) |-> Rat(k + 1)]]

----------------------------------------------------------------------------
(* Host-engine primitives used by op.go: reshape, slice, elementwise ops   *)

\* G.Reshape: same backing, new shape; an error when the sizes differ
Reshape(x, shape) ==
    IF ProdInts(shape) # ProdInts(x.shape) THEN Err
    ELSE Ok([shape |-> shape, data |-> x.data])

\* G.Slice(x, ind...) with ind[axis] = S(i, i+1, 1) and every other entry
\* nil: the elements whose coordinate along axis is i; the sliced axis,
\* now of extent 1, is dropped from the shape
SliceRow(x, axis, i) ==
    IF axis < 0 \/ axis >= Dims(x) THEN Panic
    ELSE IF i < 0 \/ i >= x.shape[axis + 1] THEN Err
    ELSE LET s == RemoveAt(x.shape, axis)
         IN  Ok([shape |-> s,
                 data |-> [k \in 1..ProdInts(s) |->
                              At(x, InsertAt(Coord(s, k - 1), axis, i))]])

\* The scalar function behind G.Add, G.Sub, G.HadamardProd, G.HadamardDiv
Apply(f, a, b) ==
    CASE f = "add" -> RatAdd(a, b)
      [] f = "sub" -> RatSub(a, b)
      [] f = "prod" -> RatMul(a, b)
      [] f = "div" -> RatDiv(a, b)

\* f(a, b) on two nodes: elementwise, the shapes have to agree
Combine(f, a, b) ==
    IF a.shape # b.shape THEN Err
    ELSE Ok([shape |-> a.shape,
             data |-> [k \in 1..Len(a.data) |-> Apply(f, a.data[k], b.data[k])]])

----------------------------------------------------------------------------
(* op.go: Squeeze, SqueezeAllBut, ReduceAlong                              *)

Squeeze(x, axis) ==
    IF axis < 0 \/ axis >= Dims(x) THEN Panic
    ELSE IF x.shape[axis + 1] # 1 THEN Ok(x)
    ELSE LET shape == Take(x.shape, axis) \o
                      (IF axis < Len(x.shape) - 1
                       THEN Drop(x.shape, axis + 1) ELSE <<>>)
         IN  Reshape(x, shape)

\* number of axes of extent 1 strictly before axis
countOnesBefore(shape, axis) ==
    Cardinality({i \in 0..(Len(shape) - 1) : i < axis /\ shape[i + 1] = 1})

\* SqueezeAllBut: axis-- when the axis squeezed lies before axis
RenumberAxisNever(axis, dimToSqueeze) == axis
RenumberAxis(axis, dimToSqueeze) ==
    IF dimToSqueeze < axis THEN axis - 1 ELSE axis

\* The loop of SqueezeAllBut, from scan index dimToSqueeze
RECURSIVE SqueezeAllButLoop(_, _, _)
SqueezeAllButLoop(x, axis, dimToSqueeze) ==
    IF dimToSqueeze >= Dims(x) THEN Panic
    ELSE IF x.shape[dimToSqueeze + 1] = 1 /\ dimToSqueeze # axis
    THEN LET sq == Squeeze(x, dimToSqueeze)
             newAxis == RenumberAxis(axis, dimToSqueeze)
         IN  IF sq.kind # "ok" THEN sq
             ELSE IF dimToSqueeze >= Dims(sq.val) THEN sq
             ELSE SqueezeAllButLoop(sq.val, newAxis, dimToSqueeze)
    ELSE IF dimToSqueeze + 1 >= Dims(x) THEN Ok(x)
         ELSE SqueezeAllButLoop(x, axis, dimToSqueeze + 1)

SqueezeAllBut(x, axis) == SqueezeAllButLoop(x, axis, 0)

SqueezeAll(x) == SqueezeAllBut(x, -1)

\* One iteration of the fold (op.go:248): row = f(row, nextRow)
FoldStepSwapped(f, row, nextRow) == Combine(f, nextRow, row)
FoldStep(f, row, nextRow) == Combine(f, row, nextRow)

\* The loop of ReduceAlong over rows i..length-1
RECURSIVE FoldRows(_, _, _, _, _, _)
FoldRows(x, axis, f, row, i, length) ==
    IF i >= length THEN Ok(row)
    ELSE LET nextRow == SliceRow(x, axis, i)
         IN  IF nextRow.kind = "panic" THEN Panic
             ELSE IF nextRow.kind = "err" THEN Err
             ELSE LET r == FoldStep(f, row, nextRow.val)
                  IN  IF r.kind # "ok" THEN r
                      ELSE FoldRows(x, axis, f, r.val, i + 1, length)

\* The shape captured for keepdims (op.go:193-196): x's shape less axis
OrigShape(shape, axis) ==
    Take(shape, axis) \o
    (IF axis # Len(shape) - 1 THEN Drop(shape, axis + 1) ELSE <<>>)

\* The final step of ReduceAlong (op.go:255-264)
FinishNoReshape(row, keepdims, origShape) == Ok(row)
Finish(row, keepdims, origShape) ==
    IF keepdims THEN Reshape(row, origShape) ELSE Ok(row)

\* ReduceAlong after the keepdims prologue (op.go:208-264)
ReduceBody(x0, axis0, keepdims, f, origShape) ==
    LET newAxis == axis0 - countOnesBefore(x0.shape, axis0)
        sq == SqueezeAllBut(x0, axis0)
    IN  IF sq.kind # "ok" THEN sq
        ELSE LET x == sq.val
                 axis == newAxis
             IN  IF axis < 0 \/ axis >= Dims(x) THEN Panic
                 ELSE LET length == x.shape[axis + 1]
                      IN  IF length = 1 THEN Squeeze(x, axis)
                          ELSE LET row == SliceRow(x, axis, 0)
                               IN  IF row.kind # "ok" THEN row
                                   ELSE LET acc == FoldRows(x, axis, f, row.val, 1, length)
                                        IN  IF acc.kind # "ok" THEN acc
                                            ELSE Finish(acc.val, keepdims, origShape)

ReduceAlong(x, axis, keepdims, f) ==
    IF axis >= Dims(x) THEN Err
    ELSE IF Dims(x) = 0 THEN Ok(x)
    ELSE IF keepdims
    THEN IF axis < 0 THEN Panic
         ELSE IF x.shape[axis + 1] = 1 THEN Squeeze(x, axis)
         ELSE ReduceBody(x, axis, keepdims, f, OrigShape(x.shape, axis))
    ELSE ReduceBody(x, axis, keepdims, f, <<>>)

ReduceSub(x, axis, keepdims) == ReduceAlong(x, axis, keepdims, "sub")
ReduceAdd(x, axis, keepdims) == ReduceAlong(x, axis, keepdims, "add")
ReduceDiv(x, axis, keepdims) == ReduceAlong(x, axis, keepdims, "div")
ReduceProd(x, axis, keepdims) == ReduceAlong(x, axis, keepdims, "prod")

----------------------------------------------------------------------------
(* The reductions, applied to every node, axis and keepdims in the bounds  *)

ReduceOps == {"ReduceAdd", "ReduceSub", "ReduceDiv", "ReduceProd"}

ReduceCalls ==
    [op : ReduceOps, x : {Iota(s) : s \in Shapes},
     axis : -1..MaxDims, keepdims : BOOLEAN]

InitReduce == call \in ReduceCalls /\ ret = NotCalled

DoReduceAdd ==
    /\ call.op = "ReduceAdd" /\ ret = NotCalled
    /\ ret' = ReduceAdd(call.x, call.axis, call.keepdims)
    /\ UNCHANGED call

DoReduceSub ==
    /\ call.op = "ReduceSub" /\ ret = NotCalled
    /\ ret' = ReduceSub(call.x, call.axis, call.keepdims)
    /\ UNCHANGED call

DoReduceDiv ==
    /\ call.op = "ReduceDiv" /\ ret = NotCalled
    /\ ret' = ReduceDiv(call.x, call.axis, call.keepdims)
    /\ UNCHANGED call

DoReduceProd ==
    /\ call.op = "ReduceProd" /\ ret = NotCalled
    /\ ret' = ReduceProd(call.x, call.axis, call.keepdims)
    /\ UNCHANGED call

NextReduce == DoReduceAdd \/ DoReduceSub \/ DoReduceDiv \/ DoReduceProd

SpecReduce == InitReduce /\ [][NextReduce]_vars

\* The combine function a reduction passes to ReduceAlong
FnOf(op) ==
    CASE op = "ReduceAdd" -> "add" [] op = "ReduceSub" -> "sub"
      [] op = "ReduceDiv" -> "div" [] op = "ReduceProd" -> "prod"

ValidAxis(c) == Dims(c.x) >= 1 /\ c.axis >= 0 /\ c.axis < Dims(c.x)

\* f(...f(f(s0, s1), s2)..., sk) at coordinates c of the non-reduced axes
RECURSIVE LeftFold(_, _, _, _, _)
LeftFold(f, x, axis, c, k) ==
    IF k = 0 THEN At(x, InsertAt(c, axis, 0))
    ELSE Apply(f, LeftFold(f, x, axis, c, k - 1), At(x, InsertAt(c, axis, k)))

\* All coordinates of a shape
CoordsOf(s) == {Coord(s, k) : k \in 0..(ProdInts(s) - 1)}

\* C1: for a node with at least one axis, a valid axis of extent n >= 2 and
\* each combine function, the reduction succeeds and its element at every
\* position of the non-reduced axes is the left fold of the slices along
\* axis in increasing index order (s0 - s1 - ... for ReduceSub, s0 / s1 /
\* ... for ReduceDiv).
C1_LeftFold ==
    (ret # NotCalled /\ ValidAxis(call) /\ call.x.shape[call.axis + 1] >= 2) =>
        LET rest == RemoveAt(call.x.shape, call.axis)
            n == call.x.shape[call.axis + 1]
        IN  /\ ret.kind = "ok"
            /\ Len(ret.val.data) = ProdInts(rest)
            /\ \A c \in CoordsOf(rest) :
                  ret.val.data[Offset(rest, c) + 1] =
                      LeftFold(FnOf(call.op), call.x, call.axis, c, n - 1)

C1_Witness ==
    /\ ret # NotCalled /\ ValidAxis(call) /\ ret.kind = "ok"
    /\ call.op = "ReduceSub" /\ call.x.shape = <<2, 3, 2>> /\ call.axis = 1
    /\ ret.val.data = <<Rat(-8), Rat(-9), Rat(-14), Rat(-15)>>

RemoveOnes(s) == SelectSeq(s, LAMBDA e : e # 1)

\* C2: for a node with at least one axis and a valid axis, the result has
\* x's shape with the entry at axis removed when keepdims is true, and x's
\* shape with axis and every axis of extent 1 removed when it is false.
C2_Shape ==
    (ret # NotCalled /\ ValidAxis(call)) =>
        /\ ret.kind = "ok"
        /\ ret.val.shape =
              IF call.keepdims THEN RemoveAt(call.x.shape, call.axis)
              ELSE RemoveOnes(RemoveAt(call.x.shape, call.axis))

C2_Witness ==
    /\ ret # NotCalled /\ ValidAxis(call) /\ ret.kind = "ok"
    /\ call.keepdims /\ call.x.shape = <<1, 3, 1>> /\ call.axis = 1
    /\ ret.val.shape = <<1, 1>>

----------------------------------------------------------------------------
(* distribution/normal.go: the declared shape and fixShape                 *)

\* tensor.Shape predicates (gorgonia.org/tensor v0.9.21, shape.go)
IsScalarShape(s) == Len(s) = 0
IsColVec(s) == Len(s) = 2 /\ s[2] = 1 /\ s[1] > 1
IsRowVec(s) == Len(s) = 2 /\ s[1] = 1 /\ s[2] > 1
IsVector(s) == IsColVec(s) \/ IsRowVec(s) \/ (Len(s) = 1 /\ s[1] > 1)

\* tensor.Shape.Eq: equality of shapes, except that a column vector (k, 1)
\* and a row vector (1, k) are equal to the plain vector (k)
ShapeEq(s, other) ==
    IF IsScalarShape(s) /\ IsScalarShape(other) THEN TRUE
    ELSE IF IsVector(s) /\ IsVector(other) /\ Len(s) = 2 /\ Len(other) = 1
    THEN (IsColVec(s) /\ s[1] = other[1]) \/ (IsRowVec(s) /\ s[2] = other[1])
    ELSE IF IsVector(s) /\ IsVector(other) /\ Len(s) = 1 /\ Len(other) = 2
    THEN (IsColVec(other) /\ other[1] = s[1]) \/ (IsRowVec(other) /\ other[2] = s[1])
    ELSE s = other

\* The shape NewNormal stores for mean and stddev: a scalar becomes (1)
DeclaredShape(meanShape) ==
    IF IsScalarShape(meanShape) THEN <<1>> ELSE meanShape

\* Normal.isBatch
isBatchNever(D, x) == FALSE
isBatch(D, x) == ~ShapeEq(x.shape, D)

\* Normal.fixShape for a Normal of shape D
fixShape(D, x) ==
    IF IsScalarShape(x.shape) /\ D[1] = 1 THEN Reshape(x, <<1>>)
    ELSE IF Len(x.shape) = 1 /\ D[1] = 1 THEN Reshape(x, <<x.shape[1], 1>>)
    ELSE IF isBatch(D, x) /\ Len(x.shape) < 1 THEN Panic
    ELSE IF isBatch(D, x) /\ ~ShapeEq(Drop(x.shape, 1), D) THEN Err
    ELSE IF ~isBatch(D, x) /\ ~ShapeEq(D, x.shape) THEN Err
    ELSE Ok(x)

\* Query shapes have up to one axis more than the declared shape
QueryShapes ==
    Shapes \cup {s \in ShapesOfLen(MaxDims + 1) : ProdInts(s) <= MaxSize}

FixShapeCalls ==
    {[op |-> "fixShape", D |-> DeclaredShape(m), x |-> Iota(xs)] :
        m \in Shapes, xs \in QueryShapes}

InitNormal == call \in FixShapeCalls /\ ret = NotCalled

DoFixShape ==
    /\ call.op = "fixShape" /\ ret = NotCalled
    /\ ret' = fixShape(call.D, call.x)
    /\ UNCHANGED call

NextNormal == DoFixShape

SpecNormal == InitNormal /\ [][NextNormal]_vars

\* The rows of the decision table, as conditions on (D, x).  A 1-element
\* declared shape is read as D = (1), the shape NewNormal gives a scalar.
RowSame(D, xs) == xs = D
RowBatch(D, xs) == Len(xs) = Len(D) + 1 /\ Drop(xs, 1) = D
RowScalar(D, xs) == D = <<1>> /\ Len(xs) = 0
RowVector(D, xs) == D = <<1>> /\ Len(xs) = 1

SingleRowOfVector(D, xs) == Len(D) = 1 /\ D[1] > 1 /\ xs[1] = 1

NoRow(D, xs) ==
    /\ ~RowSame(D, xs)
    /\ ~RowBatch(D, xs)
    /\ ~(ProdInts(D) = 1 /\ Len(xs) <= 1)

\* C4: whenever no row of the decision table applies to (D, x), fixShape
\* returns an error value to its caller.
C4_MismatchIsError ==
    (ret # NotCalled /\ NoRow(call.D, call.x.shape)) => ret.kind = "err"

----------------------------------------------------------------------------
(* utils.go and op_clamp.go: CheckArity and the gradient of Clamp          *)

\* Bound: the number of elements of the vectors given to the kernels
MaxElems == 2

\* CheckArity: nil exactly when the number of inputs is the operator's arity
CheckArity(arity, inputs) == ~(inputs # arity /\ arity >= 0)

\* Vectors of n elements drawn from the integers lo..hi
VectorsOf(n, lo, hi) ==
    {[shape |-> <<n>>, data |-> d] : d \in [1..n -> {Rat(v) : v \in lo..hi}]}

\* top.ClampB: 1 where min <= x <= max, 0 elsewhere (documented at
\* op.go:323-327)
ClampB(x, min, max) ==
    [shape |-> x.shape,
     data |-> [k \in 1..Len(x.data) |->
                  IF RatLe(min, x.data[k]) /\ RatLe(x.data[k], max)
                  THEN Rat(1) ELSE Rat(0)]]

\* tensor.Ones
Ones(shape) == [shape |-> shape, data |-> [k \in 1..ProdInts(shape) |-> Rat(1)]]

\* tensor.Mul: the elementwise product, a new tensor
TensorMul(a, b) ==
    IF a.shape # b.shape THEN Err
    ELSE Ok([shape |-> a.shape,
             data |-> [k \in 1..Len(a.data) |-> RatMul(a.data[k], b.data[k])]])

clampOp(min, max, passGradient) ==
    [min |-> min, max |-> max, passGradient |-> passGradient]

\* clampDiffOp.checkInput
clampDiffCheckInput(inputs) ==
    /\ CheckArity(2, Len(inputs))
    /\ ProdInts(inputs[1].shape) # 0

\* The choice of dydx in clampDiffOp.Do (op_clamp.go:188-193)
dydxInverted(op, x) ==
    IF op.passGradient THEN ClampB(x, op.min, op.max) ELSE Ones(x.shape)
dydx(op, x) ==
    IF ~op.passGradient THEN ClampB(x, op.min, op.max) ELSE Ones(x.shape)

\* clampDiffOp.Do on inputs <<x, dzdy>>
clampDiffOpDo(op, inputs) ==
    IF ~clampDiffCheckInput(inputs) THEN Err
    ELSE TensorMul(inputs[2], dydx(op, inputs[1]))

ClampDiffCalls ==
    UNION {[op : {"clampDiff"}, min : {Rat(0), Rat(1)}, max : {Rat(1), Rat(2)},
            passGradient : BOOLEAN,
            x : VectorsOf(n, -1, 3), dzdy : VectorsOf(n, -2, -1) \cup VectorsOf(n, 1, 1)]
           : n \in 1..MaxElems}

InitClamp == call \in ClampDiffCalls /\ ret = NotCalled

DoClampDiff ==
    /\ call.op = "clampDiff" /\ ret = NotCalled
    /\ ret' = clampDiffOpDo(clampOp(call.min, call.max, call.passGradient),
                            <<call.x, call.dzdy>>)
    /\ UNCHANGED call

NextClamp == DoClampDiff

SpecClamp == InitClamp /\ [][NextClamp]_vars

----------------------------------------------------------------------------
(* op_repeat.go: the gradient of Repeat                                    *)

\* Bound: the largest number of repeats
MaxRepeats == 3

repeatOp(axis, dims, repeats) == [axis |-> axis, dims |-> dims, repeats |-> repeats]

\* repeatDiffOp.InferShape: the first shape with its extent along axis
\* divided by repeats
repeatDiffInferShape(op, in) ==
    IF op.axis < 0 \/ op.axis >= Len(in[1]) THEN Panic
    ELSE Ok([in[1] EXCEPT ![op.axis + 1] = @ \div op.repeats])

\* repeatDiffOp.checkInputs, which looks at the gradient inputs[1] only
repeatDiffCheckInputs(op, inputs) ==
    /\ CheckArity(2, Len(inputs))
    /\ ProdInts(inputs[2].shape) # 0
    /\ ~(op.axis >= Len(inputs[2].shape))

\* t.Slice with G.S(start, stop) along axis and nil elsewhere: a view of
\* the rows start..stop-1; an axis left with extent 1 is dropped
SliceRange(t, axis, start, stop) ==
    IF start < 0 \/ stop > t.shape[axis + 1] \/ start >= stop THEN Err
    ELSE LET full == [t.shape EXCEPT ![axis + 1] = stop - start]
             s == IF stop - start = 1 THEN RemoveAt(full, axis) ELSE full
         IN  Ok([shape |-> s,
                 data |-> [k \in 1..ProdInts(full) |->
                              LET c == Coord(full, k - 1)
                              IN  At(t, [c EXCEPT ![axis + 1] = @ + start])]])

RECURSIVE SumTo(_, _, _, _)
SumTo(t, axis, c, j) ==
    IF j < 0 THEN Rat(0)
    ELSE RatAdd(SumTo(t, axis, c, j - 1), At(t, InsertAt(c, axis, j)))

\* Dense.Sum(axis): the sum over axis, which is removed from the shape
SumAxis(t, axis) ==
    IF axis < 0 \/ axis >= Dims(t) THEN Err
    ELSE LET s == RemoveAt(t.shape, axis)
         IN  Ok([shape |-> s,
                 data |-> [k \in 1..ProdInts(s) |->
                              SumTo(t, axis, Coord(s, k - 1), t.shape[axis + 1] - 1)]])

\* Dense.Stack(axis, others...): rows of one shape joined along a new axis
Stack(axis, rows) ==
    IF axis > Len(rows[1].shape) THEN Err
    ELSE LET s == InsertAt(rows[1].shape, axis, Len(rows))
         IN  Ok([shape |-> s,
                 data |-> [k \in 1..ProdInts(s) |->
                              LET c == Coord(s, k - 1)
                              IN  At(rows[c[axis + 1] + 1], RemoveAt(c, axis))]])

\* One pass of the loop of repeatDiffOp.Do: the summed block i
OutRow(op, grad, i) ==
    LET start == i * op.repeats
        stop == start + op.repeats
        slice == SliceRange(grad, op.axis, start, stop)
    IN  IF slice.kind # "ok" THEN slice
        ELSE IF ProdInts(slice.val.shape) > 1 THEN SumAxis(slice.val, op.axis)
        ELSE slice

\* repeatDiffOp.Do on inputs <<x, grad>>
repeatDiffOpDo(op, inputs) ==
    IF ~repeatDiffCheckInputs(op, inputs) THEN Err
    ELSE LET grad == inputs[2]
             inferred == repeatDiffInferShape(op, <<grad.shape>>)
         IN  IF inferred.kind # "ok" THEN inferred
             ELSE IF op.repeats = 1 THEN Ok(grad)
             ELSE LET shape == inferred.val
                      m == shape[op.axis + 1]
                      outRows == [i \in 1..m |-> OutRow(op, grad, i - 1)]
                  IN  IF m < 1 THEN Panic
                      ELSE IF \E i \in 1..m : outRows[i].kind # "ok" THEN Err
                      ELSE IF m > 1
                      THEN Stack(op.axis, [i \in 1..m |-> outRows[i].val])
                      ELSE outRows[1]

\* The upstream gradient of Repeat(x, axis, r): x's shape with the extent
\* along axis multiplied by r
RepeatedShape(s, axis, r) ==
    [k \in 1..Len(s) |-> IF k = axis + 1 THEN s[k] * r ELSE s[k]]

RepeatDiffCalls ==
    UNION {{[op |-> "repeatDiff", x |-> Iota(s), axis |-> a, repeats |-> r,
             grad |-> Iota(RepeatedShape(s, a, r))] :
               a \in 0..(Len(s) - 1), r \in 1..MaxRepeats} :
           s \in Shapes \ {<<>>}}

InitRepeat ==
    /\ call \in RepeatDiffCalls
    /\ ret = NotCalled

DoRepeatDiff ==
    /\ call.op = "repeatDiff" /\ ret = NotCalled
    /\ ret' = repeatDiffOpDo(repeatOp(call.axis, Dims(call.x), call.repeats),
                             <<call.x, call.grad>>)
    /\ UNCHANGED call

NextRepeat == DoRepeatDiff

SpecRepeat == InitRepeat /\ [][NextRepeat]_vars

\* C6: for an upstream gradient g of extent m * r along axis, the gradient
\* of Repeat returns a tensor with m slices along axis whose slice i is the
\* elementwise sum of the slices i*r, ..., i*r + r - 1 of g.
C6_BlockSums ==
    ret # NotCalled =>
        LET g == call.grad
            r == call.repeats
            m == g.shape[call.axis + 1] \div r
            rest == RemoveAt(g.shape, call.axis)
        IN  /\ ret.kind = "ok"
            /\ ret.val.shape = InsertAt(rest, call.axis, m)
            /\ \A i \in 0..(m - 1) : \A c \in CoordsOf(rest) :
                  At(ret.val, InsertAt(c, call.axis, i)) =
                      SumTo([shape |-> InsertAt(rest, call.axis, r),
                             data |-> SliceRange(g, call.axis, i * r, i * r + r).val.data],
                            call.axis, c, r - 1)

----------------------------------------------------------------------------
(* InferShape of the differentiable operators and of their gradient         *)
(* operators, on the shapes SymDiff hands to ApplyOp                        *)

\* erfOp.InferShape, erfinvOp.InferShape, clampOp.InferShape
erfInferShape(in) == IF ~CheckArity(1, Len(in)) THEN Err ELSE Ok(in[1])
erfinvInferShape(in) == IF ~CheckArity(1, Len(in)) THEN Err ELSE Ok(in[1])
clampInferShape(in) == IF ~CheckArity(1, Len(in)) THEN Err ELSE Ok(in[1])

\* repeatOp.InferShape
repeatInferShape(op, in) ==
    IF Len(in) < 1 \/ op.axis < 0 \/ op.axis >= Len(in[1]) THEN Panic
    ELSE Ok(RepeatedShape(in[1], op.axis, op.repeats))

\* gatherOp.InferShape: the shape of the indices
gatherInferShape(in) == IF ~CheckArity(2, Len(in)) THEN Err ELSE Ok(in[2])

\* erfDiffOp.InferShape, erfinvDiffOp.InferShape, clampDiffOp.InferShape
erfDiffInferShape(in) == IF ~CheckArity(2, Len(in)) THEN Err ELSE Ok(in[1])
erfinvDiffInferShape(in) == IF ~CheckArity(2, Len(in)) THEN Err ELSE Ok(in[1])
clampDiffInferShape(in) == IF ~CheckArity(2, Len(in)) THEN Err ELSE Ok(in[1])

\* gatherDiffOp.InferShape: inputs[1], with no arity check
gatherDiffInferShape(in) == IF Len(in) < 2 THEN Panic ELSE Ok(in[2])

\* The shapes SymDiff passes to the gradient operator: the primal inputs
\* followed by the upstream gradient, which has the primal's output shape
erfSymDiffShapes(x) == <<x, erfInferShape(<<x>>).val>>
erfinvSymDiffShapes(x) == <<x, erfinvInferShape(<<x>>).val>>
clampSymDiffShapes(x) == <<x, clampInferShape(<<x>>).val>>
repeatSymDiffShapes(op, x) == <<x, repeatInferShape(op, <<x>>).val>>
gatherSymDiffShapes(x, indices) == <<x, indices, gatherInferShape(<<x, indices>>).val>>

\* Index tensors for a gather along axis: the data's shape except along axis
IndexShapes(s, axis) ==
    {[k \in 1..Len(s) |-> IF k = axis + 1 THEN n ELSE s[k]] : n \in 1..MaxExtent}

DiffShapeCalls ==
    {[op |-> k, x |-> s] : k \in {"erf", "erfinv", "clamp"}, s \in Shapes}
    \cup UNION {{[op |-> "repeat", x |-> s, axis |-> a, repeats |-> r] :
                    a \in 0..(Len(s) - 1), r \in 1..MaxRepeats} :
                s \in Shapes \ {<<>>}}
    \cup UNION {UNION {{[op |-> "gather", x |-> s, axis |-> a, indices |-> ix] :
                          ix \in IndexShapes(s, a)} :
                       a \in 0..(Len(s) - 1)} :
                s \in Shapes \ {<<>>}}

InitDiffShape ==
    /\ call \in DiffShapeCalls
    /\ ret = NotCalled

DoErfDiffInferShape ==
    /\ call.op = "erf" /\ ret = NotCalled
    /\ ret' = erfDiffInferShape(erfSymDiffShapes(call.x))
    /\ UNCHANGED call

DoErfinvDiffInferShape ==
    /\ call.op = "erfinv" /\ ret = NotCalled
    /\ ret' = erfinvDiffInferShape(erfinvSymDiffShapes(call.x))
    /\ UNCHANGED call

DoClampDiffInferShape ==
    /\ call.op = "clamp" /\ ret = NotCalled
    /\ ret' = clampDiffInferShape(clampSymDiffShapes(call.x))
    /\ UNCHANGED call

DoRepeatDiffInferShape ==
    /\ call.op = "repeat" /\ ret = NotCalled
    /\ LET op == repeatOp(call.axis, Len(call.x), call.repeats)
       IN  ret' = repeatDiffInferShape(op, repeatSymDiffShapes(op, call.x))
    /\ UNCHANGED call

DoGatherDiffInferShape ==
    /\ call.op = "gather" /\ ret = NotCalled
    /\ ret' = gatherDiffInferShape(gatherSymDiffShapes(call.x, call.indices))
    /\ UNCHANGED call

NextDiffShape ==
    \/ DoErfDiffInferShape
    \/ DoErfinvDiffInferShape
    \/ DoClampDiffInferShape
    \/ DoRepeatDiffInferShape
    \/ DoGatherDiffInferShape

SpecDiffShape == InitDiffShape /\ [][NextDiffShape]_vars

\* C7: for erf, erfinv, clamp, repeat and gather, the gradient operator's
\* InferShape, given the primal input shapes followed by the upstream
\* gradient's shape, returns the shape of the primal input differentiated.
C7_GradShapeIsInputShape ==
    ret # NotCalled => ret = Ok(call.x)

----------------------------------------------------------------------------
(* op_gather.go: the gradient of Gather                                    *)

\* Bound: the largest length of the data and index vectors of a gather
MaxGather == 3

gatherOp(axis, dims) == [axis |-> axis, dims |-> dims]

\* gatherOp.DiffWRT: differentiable in the data, not in the indices
gatherDiffWRT == <<TRUE, FALSE>>

\* gatherDiffOp.Arity
gatherDiffArity == 2

\* gatherDiffOp.checkInputs, which looks at inputs[0] only
gatherDiffCheckInputs(op, inputs) ==
    /\ CheckArity(gatherDiffArity, Len(inputs))
    /\ ProdInts(inputs[1].shape) # 0
    /\ ~(op.axis >= Len(inputs[1].shape))

\* top.GatherB belongs to another module; its call is kept as the term
\* of its name and arguments
GatherB(input, axis, indices) ==
    [extern |-> "top.GatherB", input |-> input, axis |-> axis, indices |-> indices]

\* gatherDiffOp.Do: GatherB of inputs[0] and inputs[1]
gatherDiffOpDo(op, inputs) ==
    IF ~gatherDiffCheckInputs(op, inputs) THEN Err
    ELSE Ok(GatherB(inputs[1], op.axis, inputs[2]))

\* gatherOp.SymDiff: one node, the gradient operator applied to the data,
\* the indices and the upstream gradient
gatherSymDiff(inputs, grad) ==
    IF ~CheckArity(2, Len(inputs)) THEN Err
    ELSE Ok(<<inputs[1], inputs[2], grad>>)

\* Index vectors of length k into a data vector of length n
IndexVectors(n, k) == {[shape |-> <<k>>, data |-> d] : d \in [1..k -> 0..(n - 1)]}

GatherCalls ==
    UNION {UNION {{[op |-> o, x |-> Iota(<<n>>), axis |-> 0, indices |-> ix,
                    grad |-> Iota(<<k>>)] :
                      ix \in IndexVectors(n, k), o \in {"gatherGrad", "gatherDiffDo"}} :
                  k \in 1..MaxGather} :
           n \in 1..MaxGather}

InitGather ==
    /\ call \in GatherCalls
    /\ ret = NotCalled

\* The gradient as the graph evaluates it: Do on the inputs of the node
\* that SymDiff built
DoGatherGrad ==
    /\ call.op = "gatherGrad" /\ ret = NotCalled
    /\ LET op == gatherOp(call.axis, Dims(call.indices))
           node == gatherSymDiff(<<call.x, call.indices>>, call.grad)
       IN  ret' = IF node.kind # "ok" THEN node ELSE gatherDiffOpDo(op, node.val)
    /\ UNCHANGED call

\* Do called with as many inputs as the operator's arity
DoGatherDiffDo ==
    /\ call.op = "gatherDiffDo" /\ ret = NotCalled
    /\ ret' = gatherDiffOpDo(gatherOp(call.axis, Dims(call.indices)),
                             <<call.x, call.indices>>)
    /\ UNCHANGED call

NextGather == DoGatherGrad \/ DoGatherDiffDo

SpecGather == InitGather /\ [][NextGather]_vars

RECURSIVE ScatterSum(_, _, _, _)
ScatterSum(grad, indices, j, p) ==
    IF p = 0 THEN Rat(0)
    ELSE RatAdd(ScatterSum(grad, indices, j, p - 1),
                IF indices.data[p] = j THEN grad.data[p] ELSE Rat(0))

\* The scatter-add of grad into zeros of the data's shape (vectors, axis 0)
ScatterAdd(grad, indices, shape) ==
    [shape |-> shape,
     data |-> [j \in 1..shape[1] |->
                  ScatterSum(grad, indices, j - 1, Len(indices.data))]]

\* C8: the gradient of Gather in its data input is the scatter-add of the
\* upstream gradient into zeros of the data's shape, each element the sum
\* of the upstream elements whose index selected it and 0 where none did;
\* the index input gets no gradient.
C8_GatherGradIsScatterAdd ==
    /\ gatherDiffWRT = <<TRUE, FALSE>>
    /\ (ret # NotCalled /\ call.op = "gatherGrad") =>
           ret = Ok(ScatterAdd(call.grad, call.indices, call.x.shape))

----------------------------------------------------------------------------
(* String and WriteHash of the operators: the bytes of the identity hash    *)

\* Bound: the largest axis and repeats of the operators hashed
MaxParam == 2

Digit(d) ==
    CASE d = 0 -> "0" [] d = 1 -> "1" [] d = 2 -> "2" [] d = 3 -> "3"
      [] d = 4 -> "4" [] d = 5 -> "5" [] d = 6 -> "6" [] d = 7 -> "7"
      [] d = 8 -> "8" [] d = 9 -> "9"

\* fmt's %v of an int: its decimal digits
RECURSIVE Itoa(_)
Itoa(n) ==
    IF n < 0 THEN "-" \o Itoa(-n)
    ELSE IF n < 10 THEN Digit(n)
    ELSE Itoa(n \div 10) \o Digit(n % 10)

erfOpString(op) == "Erf"
erfDiffOpString(op) == "ErfDiff()"
erfinvOpString(op) == "Erf"
erfinvDiffOpString(op) == "ErfDiff()"
clampOpString(op) == "Clamp() "
clampDiffOpString(op) == "ClampDiff()"
argsortOpString(op) == "Argsort()"
repeatOpString(op) ==
    "Repeat{axis=" \o Itoa(op.axis) \o ", repeats=" \o Itoa(op.repeats) \o "}()"
repeatDiffOpString(op) ==
    "RepeatDiff{axis=" \o Itoa(op.op.axis) \o ", repeats=" \o Itoa(op.op.repeats) \o "}()"
gatherOpString(op) ==
    "Gather{axis=" \o Itoa(op.axis) \o ", dims=" \o Itoa(op.dims) \o "}()"
gatherDiffOpString(op) ==
    "GatherDiff{axis=" \o Itoa(op.op.axis) \o ", dims=" \o Itoa(op.op.dims) \o "}()"

\* WriteHash: every operator prints its String() into the hash
WriteHash(op) ==
    CASE op.kind = "erf" -> erfOpString(op)
      [] op.kind = "erfDiff" -> erfDiffOpString(op)
      [] op.kind = "erfinv" -> erfinvOpString(op)
      [] op.kind = "erfinvDiff" -> erfinvDiffOpString(op)
      [] op.kind = "clamp" -> clampOpString(op)
      [] op.kind = "clampDiff" -> clampDiffOpString(op)
      [] op.kind = "argsort" -> argsortOpString(op)
      [] op.kind = "repeat" -> repeatOpString(op)
      [] op.kind = "repeatDiff" -> repeatDiffOpString(op)
      [] op.kind = "gather" -> gatherOpString(op)
      [] op.kind = "gatherDiff" -> gatherDiffOpString(op)

\* The operators that can be built, each with the fields of its struct
ClampOps ==
    {[kind |-> "clamp", min |-> lo, max |-> hi, passGradient |-> pg] :
        lo \in {Rat(0), Rat(1)}, hi \in {Rat(1), Rat(2)}, pg \in BOOLEAN}
ArgsortOps == {[kind |-> "argsort", axis |-> a, dims |-> MaxParam] : a \in 0..(MaxParam - 1)}
RepeatOps ==
    {[kind |-> "repeat", axis |-> a, dims |-> MaxParam, repeats |-> r] :
        a \in 0..(MaxParam - 1), r \in 1..MaxParam}
GatherOps == {[kind |-> "gather", axis |-> a, dims |-> MaxParam] : a \in 0..(MaxParam - 1)}

Operators ==
    {[kind |-> k] : k \in {"erf", "erfDiff", "erfinv", "erfinvDiff"}}
    \cup ClampOps \cup {[kind |-> "clampDiff", op |-> o] : o \in ClampOps}
    \cup ArgsortOps
    \cup RepeatOps \cup {[kind |-> "repeatDiff", op |-> o] : o \in RepeatOps}
    \cup GatherOps \cup {[kind |-> "gatherDiff", op |-> o] : o \in GatherOps}

Unwritten == [done |-> FALSE, bytes |-> ""]

\* Two separately allocated operators, neither hashed yet
InitHash ==
    /\ call \in {[op |-> "hash", ops |-> <<a, b>>] : a \in Operators, b \in Operators}
    /\ ret = [kind |-> "hash", val |-> <<Unwritten, Unwritten>>]

\* WriteHash of the operator at address i, which is of kind k
DoWriteHash(k) ==
    \E i \in 1..2 :
        /\ call.op = "hash" /\ call.ops[i].kind = k
        /\ ~ret.val[i].done
        /\ ret' = [ret EXCEPT !.val[i] = [done |-> TRUE, bytes |-> WriteHash(call.ops[i])]]
        /\ UNCHANGED call

NextHash ==
    \/ DoWriteHash("erf")
    \/ DoWriteHash("erfDiff")
    \/ DoWriteHash("erfinv")
    \/ DoWriteHash("erfinvDiff")
    \/ DoWriteHash("clamp")
    \/ DoWriteHash("clampDiff")
    \/ DoWriteHash("argsort")
    \/ DoWriteHash("repeat")
    \/ DoWriteHash("repeatDiff")
    \/ DoWriteHash("gather")
    \/ DoWriteHash("gatherDiff")

SpecHash == InitHash /\ [][NextHash]_vars

\* C9: the bytes written for the identity hash are a function of exactly
\* the operator's kind and parameters: operators of one kind with equal
\* parameters write the same bytes, and operators that differ in kind or in
\* a parameter write different bytes.
C9_HashBytesIdentifyOperator ==
    (call.op = "hash" /\ ret.val[1].done /\ ret.val[2].done) =>
        (ret.val[1].bytes = ret.val[2].bytes <=> call.ops[1] = call.ops[2])

----------------------------------------------------------------------------
(* Do of every operator over a heap of buffers: which buffer each Do       *)
(* writes and which buffer its result lives in                              *)

\* A value is a buffer address with a shape; ty tells a tensor from a
\* scalar *G.F64. The heap maps each address to the elements stored there.
Val(addr, shape, ty) == [addr |-> addr, shape |-> shape, ty |-> ty]
TensorAt(heap, v) == [shape |-> v.shape, data |-> heap[v.addr]]
IsTensor(v) == v.ty = "tensor"

\* A Do's outcome: the heap it leaves and, on success, the value returned
Done(heap, out) == [kind |-> "ok", heap |-> heap, out |-> out]
Failed(heap) == [kind |-> "err", heap |-> heap]

\* tensor.New, tensor.NewDense, G.NewF64 and every library call that
\* returns a new tensor: a buffer at an address not in use
Alloc(heap, data, shape, ty) ==
    Done(Append(heap, data), Val(Len(heap) + 1, shape, ty))

\* math.Erf, math.Erfinv and the two derivative kernels, as terms of the
\* function applied and its argument
Erf(e) == <<"erf", e[1], e[2]>>
Erfinv(e) == <<"erfinv", e[1], e[2]>>
ErfDiffKernel(e, g) == <<"erfDiff", e[1], e[2], g[1], g[2]>>
ErfinvDiffKernel(e, g) == <<"erfinvDiff", e[1], e[2], g[1], g[2]>>

\* erfOp.checkInputs
erfCheckInputs(inputs) ==
    /\ CheckArity(1, Len(inputs))
    /\ ~(IsTensor(inputs[1]) /\ Len(inputs[1].shape) <= 0)

\* computeErf: every element is overwritten where it is stored and the
\* input itself is returned
computeErfCopy(heap, v) ==
    Alloc(heap, [k \in 1..Len(heap[v.addr]) |-> Erf(heap[v.addr][k])], v.shape, v.ty)
computeErf(heap, v) ==
    IF IsTensor(v) /\ Len(v.shape) = 0 THEN Failed(heap)
    ELSE Done([heap EXCEPT ![v.addr] = [k \in 1..Len(@) |-> Erf(@[k])]], v)

\* erfOp.Do
erfOpDo(heap, inputs) ==
    IF ~erfCheckInputs(inputs) THEN Failed(heap) ELSE computeErf(heap, inputs[1])

\* computeErfinv: the results are stored in a new tensor or a new scalar
computeErfinv(heap, v) ==
    IF IsTensor(v) /\ Len(v.shape) = 0 THEN Failed(heap)
    ELSE Alloc(heap, [k \in 1..Len(heap[v.addr]) |-> Erfinv(heap[v.addr][k])], v.shape, v.ty)

\* erfinvOp.Do
erfinvOpDo(heap, inputs) ==
    IF ~erfCheckInputs(inputs) THEN Failed(heap) ELSE computeErfinv(heap, inputs[1])

\* erfDiffOp.checkInputs, erfinvDiffOp.checkInputs
erfDiffCheckInputs(inputs) ==
    /\ CheckArity(2, Len(inputs))
    /\ inputs[2].ty = inputs[1].ty

\* erfDiffOp.Do and erfinvDiffOp.Do: a new scalar or a new tensor
erfDiffOpDo(heap, inputs) ==
    IF ~erfDiffCheckInputs(inputs) THEN Failed(heap)
    ELSE LET x == heap[inputs[1].addr]
             grad == heap[inputs[2].addr]
         IN  IF Len(grad) < Len(x) THEN [kind |-> "panic", heap |-> heap]
             ELSE Alloc(heap, [k \in 1..Len(x) |-> ErfDiffKernel(x[k], grad[k])],
                        inputs[1].shape, inputs[1].ty)

erfinvDiffOpDo(heap, inputs) ==
    IF ~erfDiffCheckInputs(inputs) THEN Failed(heap)
    ELSE LET x == heap[inputs[1].addr]
             grad == heap[inputs[2].addr]
         IN  IF Len(grad) < Len(x) THEN [kind |-> "panic", heap |-> heap]
             ELSE Alloc(heap, [k \in 1..Len(x) |-> ErfinvDiffKernel(x[k], grad[k])],
                        inputs[1].shape, inputs[1].ty)

\* tensor.Clamp: each element brought into [min, max], in a new tensor
TensorClamp(t, min, max) ==
    [shape |-> t.shape,
     data |-> [k \in 1..Len(t.data) |->
                  IF ~RatLe(min, t.data[k]) THEN min
                  ELSE IF ~RatLe(t.data[k], max) THEN max
                  ELSE t.data[k]]]

\* tensor.Repeat: each slice along axis repeated repeats times in a row
TensorRepeatTiled(t, axis, repeats) ==
    LET s == RepeatedShape(t.shape, axis, repeats)
    IN  [shape |-> s,
         data |-> [k \in 1..ProdInts(s) |->
                      LET c == Coord(s, k - 1)
                      IN  At(t, [c EXCEPT ![axis + 1] = @ % t.shape[axis + 1]])]]
TensorRepeat(t, axis, repeats) ==
    LET s == RepeatedShape(t.shape, axis, repeats)
    IN  [shape |-> s,
         data |-> [k \in 1..ProdInts(s) |->
                      LET c == Coord(s, k - 1)
                      IN  At(t, [c EXCEPT ![axis + 1] = @ \div repeats])]]

\* top.Argsort: along axis, the indices that sort the elements in
\* ascending order, equal elements in their original order
Argsort(t, axis) ==
    LET Elem(c, j) == At(t, [c EXCEPT ![axis + 1] = j])
        Before(c, i, j) ==
            \/ ~RatLe(Elem(c, j), Elem(c, i))
            \/ (Elem(c, i) = Elem(c, j) /\ i < j)
        Rank(c, j) == Cardinality({i \in 0..(t.shape[axis + 1] - 1) : Before(c, i, j)})
    IN  [shape |-> t.shape,
         data |-> [k \in 1..ProdInts(t.shape) |->
                      LET c == Coord(t.shape, k - 1)
                      IN  CHOOSE j \in 0..(t.shape[axis + 1] - 1) :
                              Rank(c, j) = c[axis + 1]]]

\* top.Gather: at each position of indices, the element of t that the
\* index there selects along axis
Gather(t, axis, indices) ==
    [shape |-> indices.shape,
     data |-> [k \in 1..ProdInts(indices.shape) |->
                  LET c == Coord(indices.shape, k - 1)
                  IN  At(t, [c EXCEPT ![axis + 1] = indices.data[k]])]]

\* checkInputs of clampOp, repeatOp, argsortOp and gatherOp on one tensor
tensorCheck(v, heap) == IsTensor(v) /\ Len(heap[v.addr]) # 0

\* clampOp.Do
clampOpDo(heap, op, inputs) ==
    IF ~(CheckArity(1, Len(inputs)) /\ tensorCheck(inputs[1], heap)) THEN Failed(heap)
    ELSE LET cl == TensorClamp(TensorAt(heap, inputs[1]), op.min, op.max)
         IN  Alloc(heap, cl.data, cl.shape, "tensor")

\* repeatOp.Do
repeatOpDo(heap, op, inputs) ==
    IF ~(/\ CheckArity(1, Len(inputs)) /\ tensorCheck(inputs[1], heap)
         /\ ~(op.axis >= Len(inputs[1].shape))) THEN Failed(heap)
    ELSE LET rep == TensorRepeat(TensorAt(heap, inputs[1]), op.axis, op.repeats)
         IN  Alloc(heap, rep.data, rep.shape, "tensor")

\* argsortOp.Do
argsortOpDo(heap, op, inputs) ==
    IF ~(/\ CheckArity(1, Len(inputs)) /\ tensorCheck(inputs[1], heap)
         /\ Len(inputs[1].shape) > 0
         /\ ~(Len(inputs[1].shape) <= op.axis)) THEN Failed(heap)
    ELSE LET sorted == Argsort(TensorAt(heap, inputs[1]), op.axis)
         IN  Alloc(heap, sorted.data, sorted.shape, "tensor")

\* gatherOp.Do
gatherOpDo(heap, op, inputs) ==
    IF ~(/\ CheckArity(2, Len(inputs))
         /\ tensorCheck(inputs[1], heap) /\ ~(op.axis >= Len(inputs[1].shape))
         /\ tensorCheck(inputs[2], heap) /\ ~(op.axis >= Len(inputs[2].shape)))
    THEN Failed(heap)
    ELSE LET g == Gather(TensorAt(heap, inputs[1]), op.axis, TensorAt(heap, inputs[2]))
         IN  Alloc(heap, g.data, g.shape, "tensor")

\* clampDiffOp.Do: tensor.Mul returns a new tensor
clampDiffOpDoAt(heap, op, inputs) ==
    IF ~(CheckArity(2, Len(inputs)) /\ tensorCheck(inputs[1], heap)) THEN Failed(heap)
    ELSE IF ~IsTensor(inputs[2]) THEN [kind |-> "panic", heap |-> heap]
    ELSE LET r == clampDiffOpDo(op, <<TensorAt(heap, inputs[1]), TensorAt(heap, inputs[2])>>)
         IN  IF r.kind # "ok" THEN [kind |-> r.kind, heap |-> heap]
             ELSE Alloc(heap, r.val.data, r.val.shape, "tensor")

\* repeatDiffOp.Do: a clone when repeats is 1; otherwise the stack of the
\* block sums, or the single block, which is the slice of grad itself when
\* the slice has at most one element
repeatDiffOpDoAt(heap, op, inputs) ==
    IF ~(/\ CheckArity(2, Len(inputs)) /\ tensorCheck(inputs[2], heap)
         /\ ~(op.axis >= Len(inputs[2].shape))) THEN Failed(heap)
    ELSE LET grad == TensorAt(heap, inputs[2])
             r == repeatDiffOpDo(op, <<TensorAt(heap, inputs[1]), grad>>)
             first == SliceRange(grad, op.axis, 0, op.repeats)
             m == grad.shape[op.axis + 1] \div op.repeats
         IN  IF r.kind # "ok" THEN [kind |-> r.kind, heap |-> heap]
             ELSE IF op.repeats # 1 /\ m = 1 /\ ProdInts(first.val.shape) <= 1
             THEN Done(heap, Val(inputs[2].addr, r.val.shape, "tensor"))
             ELSE Alloc(heap, r.val.data, r.val.shape, "tensor")

\* gatherDiffOp.Do
gatherDiffOpDoAt(heap, op, inputs) ==
    IF ~(/\ CheckArity(gatherDiffArity, Len(inputs)) /\ tensorCheck(inputs[1], heap)
         /\ ~(op.axis >= Len(inputs[1].shape))) THEN Failed(heap)
    ELSE IF ~IsTensor(inputs[2]) THEN [kind |-> "panic", heap |-> heap]
    ELSE Alloc(heap,
               <<gatherDiffOpDo(op, <<TensorAt(heap, inputs[1]),
                                      TensorAt(heap, inputs[2])>>).val>>,
               gatherDiffInferShape(<<inputs[1].shape, inputs[2].shape>>).val,
               "tensor")

\* The inputs of a Do, each in a buffer of its own
SmallVectors == UNION {VectorsOf(n, -1, 1) : n \in 1..MaxElems}
SmallScalars == {[shape |-> <<>>, data |-> <<Rat(v)>>] : v \in -1..1}

\* A call: the operator, its repeats or passGradient where it has one,
\* and the input values with the heap that holds them
UnaryCall(o, x, ty, r, pg) ==
    [op |-> o, repeats |-> r, passGradient |-> pg,
     heap |-> <<x.data>>, inputs |-> <<Val(1, x.shape, ty)>>]
BinaryCall(o, x, y, ty, r, pg) ==
    [op |-> o, repeats |-> r, passGradient |-> pg,
     heap |-> <<x.data, y.data>>,
     inputs |-> <<Val(1, x.shape, ty), Val(2, y.shape, ty)>>]

DoCalls ==
    {UnaryCall(o, x, "tensor", 1, FALSE) :
        o \in {"erf", "erfinv", "argsort", "clamp"},
        x \in SmallVectors \cup SmallScalars}
    \cup {UnaryCall(o, x, "F64", 1, FALSE) :
              o \in {"erf", "erfinv"}, x \in SmallScalars}
    \cup {BinaryCall(o, x, Iota(x.shape), "tensor", 1, FALSE) :
              o \in {"erfDiff", "erfinvDiff"}, x \in SmallVectors}
    \cup {BinaryCall(o, x, Iota(x.shape), "F64", 1, FALSE) :
              o \in {"erfDiff", "erfinvDiff"}, x \in SmallScalars}
    \cup {BinaryCall("clampDiff", x, Iota(x.shape), "tensor", 1, pg) :
              x \in SmallVectors, pg \in BOOLEAN}
    \cup {UnaryCall("repeat", x, "tensor", r, FALSE) :
              x \in SmallVectors, r \in 1..MaxRepeats}
    \cup {BinaryCall("repeatDiffDo", x, Iota(RepeatedShape(x.shape, 0, r)),
                     "tensor", r, FALSE) :
              x \in SmallVectors, r \in 1..MaxRepeats}
    \cup UNION {{BinaryCall(o, x, ix, "tensor", 1, FALSE) :
                    o \in {"gather", "gatherDiff"},
                    ix \in UNION {IndexVectors(x.shape[1], k) : k \in 1..MaxElems}} :
                x \in SmallVectors}

InitDo ==
    /\ call \in DoCalls
    /\ ret = NotCalled

DoErf ==
    /\ call.op = "erf" /\ ret = NotCalled
    /\ ret' = erfOpDo(call.heap, call.inputs)
    /\ UNCHANGED call

DoErfinv ==
    /\ call.op = "erfinv" /\ ret = NotCalled
    /\ ret' = erfinvOpDo(call.heap, call.inputs)
    /\ UNCHANGED call

DoErfDiff ==
    /\ call.op = "erfDiff" /\ ret = NotCalled
    /\ ret' = erfDiffOpDo(call.heap, call.inputs)
    /\ UNCHANGED call

DoErfinvDiff ==
    /\ call.op = "erfinvDiff" /\ ret = NotCalled
    /\ ret' = erfinvDiffOpDo(call.heap, call.inputs)
    /\ UNCHANGED call

DoClamp ==
    /\ call.op = "clamp" /\ ret = NotCalled
    /\ ret' = clampOpDo(call.heap, clampOp(Rat(0), Rat(1), FALSE), call.inputs)
    /\ UNCHANGED call

DoClampDiffAt ==
    /\ call.op = "clampDiff" /\ ret = NotCalled
    /\ ret' = clampDiffOpDoAt(call.heap, clampOp(Rat(0), Rat(1), call.passGradient),
                              call.inputs)
    /\ UNCHANGED call

DoRepeat ==
    /\ call.op = "repeat" /\ ret = NotCalled
    /\ ret' = repeatOpDo(call.heap, repeatOp(0, 1, call.repeats), call.inputs)
    /\ UNCHANGED call

DoRepeatDiffAt ==
    /\ call.op = "repeatDiffDo" /\ ret = NotCalled
    /\ ret' = repeatDiffOpDoAt(call.heap, repeatOp(0, 1, call.repeats), call.inputs)
    /\ UNCHANGED call

DoArgsort ==
    /\ call.op = "argsort" /\ ret = NotCalled
    /\ ret' = argsortOpDo(call.heap, [axis |-> 0, dims |-> 1], call.inputs)
    /\ UNCHANGED call

DoGather ==
    /\ call.op = "gather" /\ ret = NotCalled
    /\ ret' = gatherOpDo(call.heap, gatherOp(0, 1), call.inputs)
    /\ UNCHANGED call

DoGatherDiffAt ==
    /\ call.op = "gatherDiff" /\ ret = NotCalled
    /\ ret' = gatherDiffOpDoAt(call.heap, gatherOp(0, 1), call.inputs)
    /\ UNCHANGED call

NextDo ==
    \/ DoErf
    \/ DoErfinv
    \/ DoErfDiff
    \/ DoErfinvDiff
    \/ DoClamp
    \/ DoClampDiffAt
    \/ DoRepeat
    \/ DoRepeatDiffAt
    \/ DoArgsort
    \/ DoGather
    \/ DoGatherDiffAt

SpecDo == InitDo /\ [][NextDo]_vars

InputAddrs == {call.inputs[i].addr : i \in 1..Len(call.inputs)}

\* C10: erf's Do replaces every element of its input buffer by erf of that
\* element and returns that same buffer; the Do of every other operator
\* leaves every input buffer as it was and returns a value stored in a
\* buffer that is no input's.
C10_OnlyErfWritesInPlace ==
    ret # NotCalled =>
        IF call.op = "erf" /\ ret.kind = "ok"
        THEN /\ ret.out = call.inputs[1]
             /\ ret.heap = <<[k \in 1..Len(call.heap[1]) |-> Erf(call.heap[1][k])]>>
        ELSE /\ \A a \in InputAddrs : ret.heap[a] = call.heap[a]
             /\ ret.kind = "ok" => ret.out.addr \notin InputAddrs

C10_Witness ==
    /\ call.op = "erf" /\ ret # NotCalled /\ ret.kind = "ok"
    /\ call.inputs[1].ty = "tensor" /\ call.heap[1] = <<Rat(-1), Rat(1)>>
    /\ ret.out.addr = 1
    /\ ret.heap[1] = <<Erf(Rat(-1)), Erf(Rat(1))>>

----------------------------------------------------------------------------
(* op.go: ReduceMean, and the axis argument of every reduction              *)

Dtypes == {"Float64", "Float32", "Int"}

\* G.HadamardDiv(sum, n) with n the constant made from length
HadamardDivConst(sum, length) ==
    Ok([shape |-> sum.shape,
        data |-> [k \in 1..Len(sum.data) |-> RatDiv(sum.data[k], Rat(length))]])

\* The extent ReduceMean divides by: x.Shape()[axis], read before the sum
MeanLengthOfSize(x, axis) ==
    IF axis < 0 \/ axis >= Dims(x) THEN Panic ELSE Ok(ProdInts(x.shape))
MeanLength(x, axis) ==
    IF axis < 0 \/ axis >= Dims(x) THEN Panic ELSE Ok(x.shape[axis + 1])

ReduceMean(x, dtype, axis, keepdims) ==
    LET length == MeanLength(x, axis)
    IN  IF length.kind # "ok" THEN length
        ELSE LET sum == ReduceAdd(x, axis, keepdims)
             IN  IF sum.kind # "ok" THEN sum
                 ELSE IF dtype \notin {"Float64", "Float32"} THEN Err
                 ELSE IF Dims(sum.val) = 0
                 THEN LET vec == Reshape(sum.val, <<1>>)
                          out == HadamardDivConst(vec.val, length.val)
                      IN  IF vec.kind # "ok" THEN vec ELSE Squeeze(out.val, 0)
                 ELSE HadamardDivConst(sum.val, length.val)

MeanCalls ==
    [op : {"ReduceMean"}, x : {Iota(s) : s \in Shapes}, dtype : Dtypes,
     axis : -1..MaxDims, keepdims : BOOLEAN]

\* The calls of the four folds, with the element type of x
FoldCalls ==
    {[op |-> c.op, x |-> c.x, dtype |-> "Float64", axis |-> c.axis,
      keepdims |-> c.keepdims] : c \in ReduceCalls}

InitMean == call \in MeanCalls \cup FoldCalls /\ ret = NotCalled

DoReduceMean ==
    /\ call.op = "ReduceMean" /\ ret = NotCalled
    /\ ret' = ReduceMean(call.x, call.dtype, call.axis, call.keepdims)
    /\ UNCHANGED call

NextMean ==
    \/ DoReduceMean
    \/ DoReduceAdd
    \/ DoReduceSub
    \/ DoReduceDiv
    \/ DoReduceProd

SpecMean == InitMean /\ [][NextMean]_vars

\* C11: for x with at least one axis, each of ReduceAdd, ReduceSub,
\* ReduceProd, ReduceDiv and ReduceMean returns an error value whenever
\* axis is not a valid axis of x (axis >= the number of axes, or negative).
C11_BadAxisIsError ==
    (ret # NotCalled /\ Dims(call.x) >= 1
       /\ (call.axis < 0 \/ call.axis >= Dims(call.x))) => ret = Err

\* C12: for a 0-dimensional x, ReduceAlong returns x itself with no error
\* for every axis and keepdims.
C12_ScalarReturned ==
    (ret # NotCalled /\ call.op # "ReduceMean" /\ Dims(call.x) = 0) =>
        ret = Ok(call.x)

FloatMean ==
    /\ call.op = "ReduceMean" /\ call.dtype \in {"Float64", "Float32"}
    /\ ValidAxis(call)

\* C16: for floating-point x with at least one axis and a valid axis,
\* ReduceMean has the shape of ReduceAdd(x, axis, keepdims) and each element
\* is the element of that sum divided by the extent of x along axis in the
\* original shape, also when the sum is 0-dimensional.
C16_MeanIsSumOverExtent ==
    (ret # NotCalled /\ FloatMean) =>
        LET sum == ReduceAdd(call.x, call.axis, call.keepdims)
        IN  /\ ret.kind = "ok" /\ sum.kind = "ok"
            /\ ret.val.shape = sum.val.shape
            /\ ret.val.data =
                  [k \in 1..Len(sum.val.data) |->
                      RatDiv(sum.val.data[k], Rat(call.x.shape[call.axis + 1]))]

C16_Witness ==
    /\ ret # NotCalled /\ FloatMean /\ ~call.keepdims
    /\ call.x.shape = <<1, 3>> /\ call.axis = 1
    /\ ret = Ok([shape |-> <<>>, data |-> <<Rat(3)>>])

----------------------------------------------------------------------------
(* op.go: Squeeze, Unsqueeze and SqueezeAllBut as called by a user          *)

\* Unsqueeze: x reshaped to its shape with a 1 inserted at axis. Slicing
\* the shape beyond its length panics when the capacity of the slice is
\* its length; with spare capacity the entries read are not x's and the
\* reshape to them fails.
UnsqueezeOutcomes(x, axis) ==
    IF axis < 0 THEN {Panic}
    ELSE IF axis > Dims(x) THEN {Panic, Err}
    ELSE {Reshape(x, Take(x.shape, axis) \o <<1>> \o Drop(x.shape, axis))}

\* x's shape after Squeeze has built the new shape (op.go:69-72): the new
\* shape is cut from a clone, so the append writes into the clone
XShapeAfterSqueezeNoClone(x, axis) ==
    IF axis < Len(x.shape) - 1
    THEN Take(x.shape, axis) \o Drop(x.shape, axis + 1) \o <<x.shape[Len(x.shape)]>>
    ELSE x.shape
XShapeAfterSqueeze(x, axis) == x.shape

\* The outcome of a call together with x's shape as the call leaves it
WithX(r, xshape) ==
    IF r.kind = "ok" THEN [kind |-> "ok", val |-> r.val, xshape |-> xshape] ELSE r

SqueezeCalls ==
    [op : {"Squeeze", "Unsqueeze", "SqueezeAllBut"}, x : {Iota(s) : s \in Shapes},
     axis : -1..(MaxDims + 1)]

InitSqueeze == call \in SqueezeCalls /\ ret = NotCalled

DoSqueeze ==
    /\ call.op = "Squeeze" /\ ret = NotCalled
    /\ ret' = WithX(Squeeze(call.x, call.axis),
                    IF call.axis >= 0 /\ call.axis < Dims(call.x)
                       /\ call.x.shape[call.axis + 1] = 1
                    THEN XShapeAfterSqueeze(call.x, call.axis) ELSE call.x.shape)
    /\ UNCHANGED call

DoUnsqueeze ==
    /\ call.op = "Unsqueeze" /\ ret = NotCalled
    /\ \E r \in UnsqueezeOutcomes(call.x, call.axis) : ret' = WithX(r, call.x.shape)
    /\ UNCHANGED call

DoSqueezeAllBut ==
    /\ call.op = "SqueezeAllBut" /\ ret = NotCalled
    /\ ret' = WithX(SqueezeAllBut(call.x, call.axis), call.x.shape)
    /\ UNCHANGED call

NextSqueeze == DoSqueeze \/ DoUnsqueeze \/ DoSqueezeAllBut

SpecSqueeze == InitSqueeze /\ [][NextSqueeze]_vars

\* C13: Squeeze, Unsqueeze and SqueezeAllBut called with an axis >= the
\* number of axes of x return an axis-out-of-range error value.
C13_AxisOutOfRangeIsError ==
    (ret # NotCalled /\ call.axis >= Dims(call.x)) => ret = Err

\* C14: for a valid axis, Squeeze returns x itself when the extent along
\* axis is not 1; otherwise it returns x's elements in the same order under
\* x's shape with that one axis removed; x's own shape is not modified.
C14_Squeeze ==
    (/\ ret # NotCalled /\ call.op = "Squeeze"
     /\ call.axis >= 0 /\ call.axis < Dims(call.x)) =>
        /\ ret.kind = "ok"
        /\ ret.xshape = call.x.shape
        /\ ret.val = IF call.x.shape[call.axis + 1] # 1 THEN call.x
                     ELSE [shape |-> RemoveAt(call.x.shape, call.axis),
                           data |-> call.x.data]

C14_Witness ==
    /\ ret # NotCalled /\ call.op = "Squeeze" /\ ret.kind = "ok"
    /\ call.x.shape = <<2, 1, 3>> /\ call.axis = 1
    /\ ret.val.shape = <<2, 3>> /\ ret.xshape = <<2, 1, 3>>

----------------------------------------------------------------------------
(* op.go, op_repeat.go: Repeat                                              *)

newRepeatOp(axis, dims, repeats) ==
    IF repeats = 0 THEN Err ELSE Ok(repeatOp(axis, dims, repeats))

\* x's shape after repeatOp.InferShape, which multiplies in a clone
XShapeAfterInferShape(x, op) == x.shape

\* Repeat: the node ApplyOp builds has the shape InferShape gives and the
\* value Do computes
Repeat(x, axis, repeats) ==
    IF Dims(x) = 0 THEN Err
    ELSE IF axis >= Dims(x) THEN Err
    ELSE LET op == newRepeatOp(axis, Dims(x), repeats)
         IN  IF op.kind # "ok" THEN op
             ELSE LET inferred == repeatInferShape(op.val, <<x.shape>>)
                  IN  IF inferred.kind # "ok" THEN inferred
                      ELSE WithX(Ok([shape |-> inferred.val,
                                     data |-> TensorRepeat(x, axis, repeats).data]),
                                 XShapeAfterInferShape(x, op.val))

RepeatCalls ==
    [op : {"Repeat"}, x : {Iota(s) : s \in Shapes}, axis : -1..MaxDims,
     repeats : 0..MaxRepeats]

InitRepeatFwd == call \in RepeatCalls /\ ret = NotCalled

DoRepeatFwd ==
    /\ call.op = "Repeat" /\ ret = NotCalled
    /\ ret' = Repeat(call.x, call.axis, call.repeats)
    /\ UNCHANGED call

NextRepeatFwd == DoRepeatFwd

SpecRepeatFwd == InitRepeatFwd /\ [][NextRepeatFwd]_vars

\* C15: for x with at least one axis, a valid axis and repeats r >= 1,
\* Repeat(x, axis, r) has x's shape with the extent along axis multiplied
\* by r, its slice j along axis is slice floor(j / r) of x, and x's shape
\* is not modified.
C15_Repeat ==
    (ret # NotCalled /\ ValidAxis(call) /\ call.repeats >= 1) =>
        /\ ret.kind = "ok"
        /\ ret.xshape = call.x.shape
        /\ Len(ret.val.shape) = Len(call.x.shape)
        /\ \A k \in 1..Len(call.x.shape) :
              ret.val.shape[k] = IF k = call.axis + 1
                                 THEN call.x.shape[k] * call.repeats
                                 ELSE call.x.shape[k]
        /\ \A j \in 0..(call.x.shape[call.axis + 1] * call.repeats - 1) :
              SliceRow(ret.val, call.axis, j) =
                  SliceRow(call.x, call.axis, j \div call.repeats)

C15_Witness ==
    /\ ret # NotCalled /\ ret.kind = "ok"
    /\ call.x.shape = <<2, 2>> /\ call.axis = 0 /\ call.repeats = 2
    /\ ret.val.shape = <<4, 2>>
    /\ ret.val.data = <<Rat(2), Rat(3), Rat(2), Rat(3), Rat(4), Rat(5), Rat(4), Rat(5)>>

----------------------------------------------------------------------------
(* distribution/op_normal_sample.go: the sampling operator                 *)

MaxSamples == 2

\* rand.NewSource(seed): the stream of the seed, with nothing drawn yet.
\* A source is the seed it was made from and the number of variates drawn.
NewSource(seed) == [seed |-> seed, pos |-> 0]

\* The position in the source's stream of draw number k (from 0) of a Do
RandPosReseeded(source, k) == k
RandPos(source, k) == source.pos + k

\* distuv.Normal.Rand with Mu and Sigma set: the variate at position p of
\* the stream of the source, scaled by sigma and shifted by mu
NormalRand(mu, sigma, source, p) ==
    [mu |-> mu, sigma |-> sigma, z |-> <<source.seed, p>>]

\* newNormalSampleOp
newNormalSampleOp(dt, seed, numSamples, shape) ==
    IF dt \notin {"Float64", "Float32"} THEN Err
    ELSE IF numSamples < 1 THEN Err
    ELSE Ok([dt |-> dt, shape |-> shape, numSamples |-> numSamples,
             source |-> NewSource(seed)])

\* normalSampleOp.InferShape
normalSampleInferShape(op) == <<op.numSamples>> \o op.shape

\* normalSampleOp.checkInputs: the two type assertions have no ok result
normalSampleCheckInputs(op, heap, inputs) ==
    IF ~CheckArity(2, Len(inputs)) THEN "err"
    ELSE IF ~IsTensor(inputs[1]) THEN "panic"
    ELSE IF Len(heap[inputs[1].addr]) = 0 \/ ~ShapeEq(inputs[1].shape, op.shape)
    THEN "err"
    ELSE IF ~IsTensor(inputs[2]) THEN "panic"
    ELSE IF Len(heap[inputs[2].addr]) = 0 \/ ~ShapeEq(inputs[2].shape, op.shape)
    THEN "err"
    ELSE "ok"

\* The loops of normalSampleOp.Do: for element i of mean and sample j, draw
\* number i * numSamples + j of the execution is stored at [j, i]
normalSampleDraws(op, mean, std) ==
    LET size == Len(mean)
    IN  [k \in 1..(op.numSamples * size) |->
            LET j == (k - 1) \div size
                i == (k - 1) % size
            IN  NormalRand(mean[i + 1], std[i + 1], op.source,
                           RandPos(op.source, i * op.numSamples + j))]

\* normalSampleOp.Do
normalSampleOpDo(heap, op, inputs) ==
    LET chk == normalSampleCheckInputs(op, heap, inputs)
    IN  IF chk = "err" THEN Failed(heap)
        ELSE IF chk = "panic" THEN [kind |-> "panic", heap |-> heap]
        ELSE Alloc(heap,
                   normalSampleDraws(op, heap[inputs[1].addr], heap[inputs[2].addr]),
                   normalSampleInferShape(op), "tensor")

\* The operator's source after a Do that drew for size elements
sourceAfterDo(op, size) ==
    [op.source EXCEPT !.pos = RandPos(op.source, op.numSamples * size)]

----------------------------------------------------------------------------
(* Do of every operator on inputs its validation has to turn down          *)

\* Arity() of each operator
ArityOf(o) ==
    IF o \in {"erf", "erfinv", "clamp", "repeat", "argsort"} THEN 1
    ELSE IF o = "gatherDiff" THEN gatherDiffArity
    ELSE 2

\* The inputs each Do reads as a tensor.Tensor, and the one its axis is of
TensorInputs(o) ==
    CASE o \in {"clamp", "repeat", "argsort"} -> {1}
      [] o = "repeatDiffDo" -> {2}
      [] o \in {"clampDiff", "gather", "gatherDiff", "normalSample"} -> {1, 2}
      [] OTHER -> {}
AxisInput(o) ==
    CASE o \in {"repeat", "argsort", "gather", "gatherDiff"} -> {1}
      [] o = "repeatDiffDo" -> {2}
      [] OTHER -> {}

Empty == [shape |-> <<0>>, data |-> <<>>]

\* Calls with one input too few or too many, with a scalar value where a
\* tensor is read, with an empty tensor and with a tensor of no axis
InvalidDoCalls ==
    {BinaryCall(o, x, x, ty, 1, FALSE) :
        o \in {"erf", "erfinv", "clamp", "repeat", "argsort"},
        x \in SmallScalars, ty \in {"tensor", "F64"}}
    \cup {UnaryCall(o, x, "tensor", 1, FALSE) :
              o \in {"erfDiff", "erfinvDiff", "clampDiff", "repeatDiffDo",
                     "gather", "gatherDiff", "normalSample"},
              x \in SmallVectors}
    \cup {UnaryCall(o, x, "F64", 1, FALSE) :
              o \in {"clamp", "repeat", "argsort"}, x \in SmallScalars}
    \cup {[BinaryCall(o, x, y, "tensor", 1, FALSE) EXCEPT !.inputs[i].ty = "F64"] :
              o \in {"clampDiff", "repeatDiffDo", "gather", "gatherDiff",
                     "normalSample"},
              x \in {s \in SmallVectors : Len(s.data) = 1},
              y \in SmallScalars, i \in 1..2}
    \cup {UnaryCall(o, x, "tensor", 1, FALSE) :
              o \in {"repeat", "argsort"}, x \in {Empty} \cup SmallScalars}
    \cup {BinaryCall(o, x, y, "tensor", 1, FALSE) :
              o \in {"gather", "gatherDiff"},
              x \in {Empty} \cup SmallScalars, y \in IndexVectors(1, 1)}
    \cup {BinaryCall("repeatDiffDo", x, y, "tensor", 1, FALSE) :
              x \in SmallVectors, y \in {Empty} \cup SmallScalars}

SampleDoCalls ==
    {BinaryCall("normalSample", x, Ones(x.shape), "tensor", n, FALSE) :
        x \in SmallVectors, n \in 1..MaxSamples}

InitDoChecked ==
    /\ call \in DoCalls \cup SampleDoCalls \cup InvalidDoCalls
    /\ ret = NotCalled

\* normalSampleOp.Do of an operator made for the shape of its first input
DoNormalSampleAt ==
    /\ call.op = "normalSample" /\ ret = NotCalled
    /\ ret' = normalSampleOpDo(call.heap,
                  newNormalSampleOp("Float64", 1, call.repeats,
                                    call.inputs[1].shape).val,
                  call.inputs)
    /\ UNCHANGED call

NextDoChecked ==
    \/ NextDo
    \/ DoNormalSampleAt

SpecDoChecked == InitDoChecked /\ [][NextDoChecked]_vars

\* What the validation has to turn down: a wrong number of inputs, a value
\* that is no tensor where the operator reads one and, for the operators
\* with an axis, a tensor with no element or with no axis at the
\* operator's axis (0 here)
InvalidCall ==
    \/ Len(call.inputs) # ArityOf(call.op)
    \/ \E i \in TensorInputs(call.op) : call.inputs[i].ty # "tensor"
    \/ \E i \in AxisInput(call.op) :
          Len(call.heap[i]) = 0 \/ Len(call.inputs[i].shape) <= 0

\* C17: on a wrong number of inputs, on an input that is not a tensor where
\* one is required and, for the operators with an axis, on an empty tensor
\* or one with no more axes than the axis, Do returns an error value and
\* leaves every buffer of the heap as it was.
C17_InvalidInputIsError ==
    (ret # NotCalled /\ InvalidCall) =>
        (ret.kind = "err" /\ ret.heap = call.heap)

----------------------------------------------------------------------------
(* distribution/normal.go: Sample and Rsample, and the executions of the   *)
(* sampling nodes they create                                               *)

MaxSampleSize == 2
MaxNodes == 2
MaxRuns == 3
Seeds == {7}

\* The declared shapes tried: one or two axes
SampleShapes ==
    {s \in Shapes : Len(s) \in 1..2 /\ ProdInts(s) <= MaxSampleSize}

\* NewNormal on a mean and a stddev of shape D with distinct elements
NewNormal(D, seed) ==
    [mean |-> [shape |-> D, data |-> [k \in 1..ProdInts(D) |-> Rat(k)]],
     stddev |-> [shape |-> D, data |-> [k \in 1..ProdInts(D) |-> Rat(10 + k)]],
     seed |-> seed]

\* NormalSample: the operator and the inputs of the node G.ApplyOp returns,
\* whose shape is the operator's InferShape
NormalSample(mean, stddev, seed, numSamples) ==
    IF ~ShapeEq(mean.shape, stddev.shape) THEN Err
    ELSE LET n == newNormalSampleOp("Float64", seed, numSamples, mean.shape)
         IN  IF n.kind # "ok" THEN Err
             ELSE Ok([op |-> n.val, mean |-> mean, stddev |-> stddev,
                      shape |-> normalSampleInferShape(n.val)])

\* Normal.Sample
Sample(n, m) == NormalSample(n.mean, n.stddev, n.seed, m)

\* Shape inference of the host's elementwise product and sum: both shapes
\* scalar-equivalent, or equal in the sense of tensor.Shape.Eq
IsScalarEquiv(s) == \A k \in 1..Len(s) : s[k] = 1
HadamardShape(a, b) ==
    IF (IsScalarEquiv(a) /\ IsScalarEquiv(b)) \/ ShapeEq(a, b)
    THEN Ok(IF Len(b) > Len(a) THEN b ELSE a)
    ELSE Err

\* The same with the right operand broadcast along axis 0 of the left
BroadcastShape(a, b) ==
    IF Len(a) = Len(b) + 1 /\ Drop(a, 1) = b THEN Ok(a) ELSE Err

\* Normal.Rsample: the standard normal sampling node and the shape of
\* stdNormal * stddev + mean; G.Must panics on an error
Rsample(n, m) ==
    LET size == ProdInts(n.mean.shape)
        zeroMean == [shape |-> n.mean.shape, data |-> [k \in 1..size |-> Rat(0)]]
        unitStddev == [shape |-> n.stddev.shape, data |-> [k \in 1..size |-> Rat(1)]]
        stdNormal == NormalSample(zeroMean, unitStddev, n.seed, m)
    IN  IF stdNormal.kind # "ok" THEN Err
        ELSE LET out == IF m > 1
                        THEN BroadcastShape(stdNormal.val.shape, n.stddev.shape)
                        ELSE HadamardShape(stdNormal.val.shape, n.stddev.shape)
             IN  IF out.kind # "ok" THEN Panic
                 ELSE Ok([stdNormal.val EXCEPT !.shape = out.val])

\* The value of an Rsample node: stdNormal * stddev + mean, element by
\* element, stddev and mean repeated along axis 0
Reparameterize(n, z) ==
    LET size == ProdInts(n.mean.shape)
    IN  [k \in 1..Len(z) |->
            [mean |-> n.mean.data[((k - 1) % size) + 1],
             stddev |-> n.stddev.data[((k - 1) % size) + 1],
             z |-> z[k]]]

\* A Normal, the sampling nodes created on it so far, the executions of
\* these nodes so far and the outcome of the last Sample or Rsample
SampleCalls == {[op |-> "Normal", D |-> d, seed |-> s] : d \in SampleShapes, s \in Seeds}

InitSample ==
    /\ call \in SampleCalls
    /\ ret = [kind |-> "graph", nodes |-> <<>>, runs |-> <<>>,
              last |-> NotCalled, dead |-> FALSE]

\* The state after Sample(m) or Rsample(m) returned r
Built(how, m, r) ==
    IF r.kind = "ok"
    THEN [ret EXCEPT !.nodes = Append(@, [how |-> how, m |-> m, op |-> r.val.op,
                                          mean |-> r.val.mean, stddev |-> r.val.stddev,
                                          shape |-> r.val.shape]),
                     !.last = [how |-> how, m |-> m, kind |-> "ok", shape |-> r.val.shape]]
    ELSE [ret EXCEPT !.last = [how |-> how, m |-> m, kind |-> r.kind],
                     !.dead = (r.kind = "panic")]

DoSample ==
    /\ ret.kind = "graph" /\ ~ret.dead /\ Len(ret.nodes) < MaxNodes
    /\ \E m \in 0..MaxSamples :
          ret' = Built("Sample", m, Sample(NewNormal(call.D, call.seed), m))
    /\ UNCHANGED call

DoRsample ==
    /\ ret.kind = "graph" /\ ~ret.dead /\ Len(ret.nodes) < MaxNodes
    /\ \E m \in 0..MaxSamples :
          ret' = Built("Rsample", m, Rsample(NewNormal(call.D, call.seed), m))
    /\ UNCHANGED call

\* One execution of the graph of node i: the sampling operator's Do on its
\* two inputs and, for an Rsample node, the reparameterization
DoRun ==
    /\ ret.kind = "graph" /\ ~ret.dead /\ Len(ret.runs) < MaxRuns
    /\ \E i \in 1..Len(ret.nodes) :
          LET node == ret.nodes[i]
              done == normalSampleOpDo(<<node.mean.data, node.stddev.data>>, node.op,
                                       <<Val(1, node.mean.shape, "tensor"),
                                         Val(2, node.stddev.shape, "tensor")>>)
              draws == done.heap[done.out.addr]
              value == IF node.how = "Rsample"
                       THEN Reparameterize(NewNormal(call.D, call.seed), draws)
                       ELSE draws
          IN  /\ done.kind = "ok"
              /\ ret' = [ret EXCEPT
                            !.nodes[i].op.source =
                                sourceAfterDo(node.op, Len(node.mean.data)),
                            !.runs = Append(@, [node |-> i, draws |-> draws,
                                                value |-> value])]
    /\ UNCHANGED call

NextSample ==
    \/ DoSample
    \/ DoRsample
    \/ DoRun

SpecSample == InitSample /\ [][NextSample]_vars

\* The positions of the seed's stream that an execution drew
Drawn(run) == {run.draws[k].z : k \in 1..Len(run.draws)}

\* C18: Rsample(m) with m >= 1 returns a node of shape [m] followed by the
\* declared shape, and element [j, e] of every execution of that node is
\* mean[e] + stddev[e] * z[j, e], z being the draws of a zero-mean,
\* unit-stddev sampling operator.
C18_Rsample ==
    /\ (ret.last # NotCalled /\ ret.last.how = "Rsample" /\ ret.last.m >= 1) =>
           (ret.last.kind = "ok" /\ ret.last.shape = <<ret.last.m>> \o call.D)
    /\ \A r \in 1..Len(ret.runs) :
          LET node == ret.nodes[ret.runs[r].node]
              n == NewNormal(call.D, call.seed)
              size == ProdInts(call.D)
          IN  node.how = "Rsample" =>
                  /\ Len(ret.runs[r].value) = node.m * size
                  /\ \A j \in 0..(node.m - 1), e \in 1..size :
                        LET v == ret.runs[r].value[j * size + e]
                        IN  /\ v.mean = n.mean.data[e]
                            /\ v.stddev = n.stddev.data[e]
                            /\ v.z = ret.runs[r].draws[j * size + e]
                            /\ v.z.mu = Rat(0) /\ v.z.sigma = Rat(1)

\* C19: the sampling nodes created on one Normal draw from one source:
\* executions of two different nodes never draw the same position of the
\* stream of the seed.
C19_OneSourcePerNormal ==
    \A r, q \in 1..Len(ret.runs) :
        ret.runs[r].node # ret.runs[q].node =>
            Drawn(ret.runs[r]) \cap Drawn(ret.runs[q]) = {}

\* C20: every execution of a sampling node draws numSamples times the
\* number of declared-shape elements variates from the stream of the seed
\* the node was created with, starting where the node's previous execution
\* stopped, so no two executions of a node share a variate.
C20_NoReplay ==
    \A r \in 1..Len(ret.runs) :
        LET node == ret.nodes[ret.runs[r].node]
            count == node.m * ProdInts(call.D)
            before == Cardinality({q \in 1..(r - 1) :
                                      ret.runs[q].node = ret.runs[r].node})
        IN  /\ Len(ret.runs[r].draws) = count
            /\ Drawn(ret.runs[r]) =
                   {<<call.seed, p>> : p \in (before * count)..((before + 1) * count - 1)}

C20_Witness ==
    /\ call.D = <<2>> /\ Len(ret.runs) = 3
    /\ ret.runs[1].node = 1 /\ ret.runs[2].node = 1 /\ ret.runs[3].node = 1
    /\ ret.nodes[1].m = 2 /\ ret.nodes[1].how = "Sample"
    /\ Drawn(ret.runs[3]) = {<<call.seed, p>> : p \in 8..11}
    /\ ret.nodes[1].op.source.pos = 12

----------------------------------------------------------------------------
(* distribution/normal.go: NewNormal's validation                          *)

\* NewNormal on the shapes and element types of mean and stddev: the
\* shapes are compared with tensor.Shape.Eq, the types have to be equal
\* and Float64, and a scalar mean has both nodes reshaped to (1)
NewNormalChecked(mean, stddev) ==
    IF ~ShapeEq(mean.shape, stddev.shape) THEN Err
    ELSE IF mean.dt # stddev.dt THEN Err
    ELSE IF mean.dt # "Float64" THEN Err
    ELSE IF IsScalarShape(mean.shape)
    THEN Ok([mean |-> [shape |-> <<1>>, dt |-> mean.dt],
             stddev |-> [shape |-> <<1>>, dt |-> stddev.dt]])
    ELSE Ok([mean |-> mean, stddev |-> stddev])

\* Parameter nodes of up to two axes, of every element type
ParamNodes ==
    {[shape |-> s, dt |-> t] : s \in {q \in Shapes : Len(q) <= 2}, t \in Dtypes}

NewNormalCalls == {[op |-> "NewNormal", mean |-> m, stddev |-> d] :
                      m \in ParamNodes, d \in ParamNodes}

InitNewNormal ==
    /\ call \in NewNormalCalls
    /\ ret = NotCalled

DoNewNormal ==
    /\ call.op = "NewNormal" /\ ret = NotCalled
    /\ ret' = NewNormalChecked(call.mean, call.stddev)
    /\ UNCHANGED call

NextNewNormal == DoNewNormal

SpecNewNormal == InitNewNormal /\ [][NextNewNormal]_vars

\* C21: NewNormal succeeds exactly when mean and stddev have identical
\* shapes and the same element type, float32 or float64, and returns an
\* error otherwise; the Normal it returns has mean and stddev of identical
\* shape with at least one axis and of identical element type.
C21_NewNormal ==
    ret # NotCalled =>
        /\ ret.kind = (IF /\ call.mean.shape = call.stddev.shape
                          /\ call.mean.dt = call.stddev.dt
                          /\ call.mean.dt \in {"Float64", "Float32"}
                       THEN "ok" ELSE "err")
        /\ ret.kind = "ok" =>
              /\ ret.val.mean.shape = ret.val.stddev.shape
              /\ Len(ret.val.mean.shape) >= 1
              /\ ret.val.mean.dt = ret.val.stddev.dt

----------------------------------------------------------------------------
(* op.go: Clip, built from the host's comparisons, products and sum        *)

\* G.Lt and G.Gt with retSame: 1 where the comparison holds, 0 elsewhere
Lt(a, b) == IF ~RatLe(b, a) THEN Rat(1) ELSE Rat(0)
Gt(a, b) == IF ~RatLe(a, b) THEN Rat(1) ELSE Rat(0)

\* Clip: min * (v < min) + v * (v > min) * (v < max) + max * (v > max)
Clip(value, min, max) ==
    [shape |-> value.shape,
     data |-> [k \in 1..Len(value.data) |->
                  LET v == value.data[k]
                      minVal == RatMul(min, Lt(v, min))
                      isMask == RatMul(Gt(v, min), Lt(v, max))
                      isVal == RatMul(v, isMask)
                      maxVal == RatMul(max, Gt(v, max))
                  IN  RatAdd(RatAdd(minVal, isVal), maxVal)]]

\* Bounds min <= max and vectors around them
ClipCalls ==
    {[op |-> o, x |-> x, min |-> Rat(b[1]), max |-> Rat(b[2])] :
        o \in {"Clip", "Clamp"}, x \in SmallVectors,
        b \in {q \in (-1..1) \X (-1..1) : q[1] <= q[2]}}

InitClip ==
    /\ call \in ClipCalls
    /\ ret = NotCalled

DoClip ==
    /\ call.op = "Clip" /\ ret = NotCalled
    /\ ret' = Ok(Clip(call.x, call.min, call.max))
    /\ UNCHANGED call

\* Clamp: the node of clampOp, whose value is tensor.Clamp of x
DoClampFwd ==
    /\ call.op = "Clamp" /\ ret = NotCalled
    /\ ret' = Ok(TensorClamp(call.x, call.min, call.max))
    /\ UNCHANGED call

NextClip == DoClip \/ DoClampFwd

SpecClip == InitClip /\ [][NextClip]_vars

\* C22: for min <= max, every element v of Clip's result is v when
\* min <= v <= max, min when v < min and max when v > max; so it lies in
\* [min, max] and Clip gives the values of Clamp with the same bounds.
C22_ClipIsClamp ==
    (ret # NotCalled /\ call.op = "Clip") =>
        /\ \A k \in 1..Len(call.x.data) :
              LET v == call.x.data[k]
              IN  /\ ret.val.data[k] =
                         (IF ~RatLe(call.min, v) THEN call.min
                          ELSE IF ~RatLe(v, call.max) THEN call.max ELSE v)
                  /\ RatLe(call.min, ret.val.data[k])
                  /\ RatLe(ret.val.data[k], call.max)
        /\ ret.val = TensorClamp(call.x, call.min, call.max)

----------------------------------------------------------------------------
(* string.go: Unique and the package-level map count                       *)

MaxCalls == 4

\* Names given to Unique; one of them is what Unique builds from another
Names == {"a", "b", "a_1"}

\* count[name] of a Go map: the zero value and false for a missing key
Lookup(count, name) ==
    IF name \in DOMAIN count THEN [suffix |-> count[name], ok |-> TRUE]
    ELSE [suffix |-> 0, ok |-> FALSE]

\* count[name] = v
Store(count, name, v) ==
    [n \in DOMAIN count \cup {name} |-> IF n = name THEN v ELSE count[n]]

\* count[name]++
IncrementEvery(count, name) ==
    [n \in DOMAIN count \cup {name} |->
        IF n \in DOMAIN count THEN count[n] + 1 ELSE 1]
Increment(count, name) == Store(count, name, Lookup(count, name).suffix + 1)

\* fmt.Sprintf("%v_%v", name, suffix)
Sprintf(name, suffix) == name \o "_" \o Itoa(suffix)

\* Unique: the string returned and the map it leaves
Unique(count, name) ==
    LET l == Lookup(count, name)
    IN  [out |-> IF l.ok THEN Sprintf(name, l.suffix) ELSE name,
         count |-> Increment(count, name)]

\* The program after init(): an empty map and no call made yet
InitUnique ==
    /\ call = [op |-> "Unique"]
    /\ ret = [kind |-> "calls", count |-> <<>>, calls |-> <<>>]

DoUnique ==
    /\ ret.kind = "calls" /\ Len(ret.calls) < MaxCalls
    /\ \E name \in Names :
          LET u == Unique(ret.count, name)
          IN  ret' = [ret EXCEPT !.count = u.count,
                                 !.calls = Append(@, [name |-> name, out |-> u.out])]
    /\ UNCHANGED call

NextUnique == DoUnique

SpecUnique == InitUnique /\ [][NextUnique]_vars

\* The number of calls before call i that were given the same name
Earlier(i) ==
    Cardinality({j \in 1..(i - 1) : ret.calls[j].name = ret.calls[i].name})

\* C23: the first call of Unique with a name returns the name unchanged
\* and the k-th later call with that name returns the name followed by
\* "_" and k, whatever calls with other names were made in between.
C23_UniqueSuffix ==
    \A i \in 1..Len(ret.calls) :
        ret.calls[i].out =
            (IF Earlier(i) = 0 THEN ret.calls[i].name
             ELSE ret.calls[i].name \o "_" \o Itoa(Earlier(i)))

C23_Witness ==
    /\ Len(ret.calls) = 4
    /\ ret.calls[1] = [name |-> "a", out |-> "a"]
    /\ ret.calls[2] = [name |-> "b", out |-> "b"]
    /\ ret.calls[3] = [name |-> "a", out |-> "a_1"]
    /\ ret.calls[4] = [name |-> "a", out |-> "a_2"]

\* C24: after any sequence of calls of Unique, no two calls have returned
\* the same string.
C24_AllDistinct ==
    \A i, j \in 1..Len(ret.calls) :
        i # j => ret.calls[i].out # ret.calls[j].out

----------------------------------------------------------------------------
(* string.go: two goroutines in Unique at once.  Unique takes no lock, so   *)
(* its statements interleave: the lookup count[name], then the read and    *)
(* the write of count[name]++, then the return.                             *)

MaxCount == 2

Callers == {1, 2}

\* The map before the two calls: empty, or "a" counted some times
CountsBefore == {<<>>} \cup {Store(<<>>, "a", v) : v \in 1..MaxCount}

ConcCalls ==
    {[op |-> "UniqueConc", names |-> <<n1, n2>>, count |-> c] :
        n1 \in {"a", "b"}, n2 \in {"a", "b"}, c \in CountsBefore}

InitConc ==
    /\ call \in ConcCalls
    /\ ret = [kind |-> "conc", count |-> call.count,
              pc |-> <<"lookup", "lookup">>,
              l |-> <<Lookup(<<>>, "a"), Lookup(<<>>, "a")>>,
              tmp |-> <<0, 0>>, out |-> <<"", "">>, fatal |-> FALSE]

\* suffix, ok := count[name]
ConcLookup ==
    /\ ret.kind = "conc" /\ ~ret.fatal
    /\ \E p \in Callers :
          /\ ret.pc[p] = "lookup"
          /\ ret' = [ret EXCEPT !.l[p] = Lookup(ret.count, call.names[p]),
                                !.pc[p] = "load"]
    /\ UNCHANGED call

\* count[name]++, the read of the old value
ConcLoad ==
    /\ ret.kind = "conc" /\ ~ret.fatal
    /\ \E p \in Callers :
          /\ ret.pc[p] = "load"
          /\ ret' = [ret EXCEPT !.tmp[p] = Lookup(ret.count, call.names[p]).suffix,
                                !.pc[p] = "store"]
    /\ UNCHANGED call

\* count[name]++, the write of the new value; while the other goroutine
\* is inside its own write to the map the runtime may stop the program
\* with "concurrent map writes"
ConcStore ==
    /\ ret.kind = "conc" /\ ~ret.fatal
    /\ \E p \in Callers :
          /\ ret.pc[p] = "store"
          /\ \/ ret' = [ret EXCEPT !.count = Store(@, call.names[p], ret.tmp[p] + 1),
                                   !.pc[p] = "return"]
             \/ /\ \E q \in Callers \ {p} : ret.pc[q] = "store"
                /\ ret' = [ret EXCEPT !.fatal = TRUE]
    /\ UNCHANGED call

\* return fmt.Sprintf("%v_%v", name, suffix), or return name
ConcReturn ==
    /\ ret.kind = "conc" /\ ~ret.fatal
    /\ \E p \in Callers :
          /\ ret.pc[p] = "return"
          /\ ret' = [ret EXCEPT
                        !.out[p] = IF ret.l[p].ok
                                   THEN Sprintf(call.names[p], ret.l[p].suffix)
                                   ELSE call.names[p],
                        !.pc[p] = "done"]
    /\ UNCHANGED call

NextConc == ConcLookup \/ ConcLoad \/ ConcStore \/ ConcReturn

SpecConc == InitConc /\ [][NextConc]_vars

\* C30: two concurrent calls of Unique with the same name read and
\* increment the counter atomically: the program is not stopped, and once
\* both have returned their strings differ and the counter of the name is
\* 2 higher than before.
C30_AtomicCounter ==
    (ret.kind = "conc" /\ call.names[1] = call.names[2]) =>
        /\ ~ret.fatal
        /\ (ret.pc[1] = "done" /\ ret.pc[2] = "done") =>
              /\ ret.out[1] # ret.out[2]
              /\ Lookup(ret.count, call.names[1]).suffix =
                     Lookup(call.count, call.names[1]).suffix + 2

----------------------------------------------------------------------------
(* SymDiff of the differentiable operators: the nodes it returns            *)

\* nodes := make(G.Nodes, 1); nodes[0] = G.ApplyOp(diffOp, inputs...)
SymDiffNodes(diffOp, inputs) ==
    [kind |-> "ok", nodes |-> <<[op |-> diffOp, inputs |-> inputs]>>]

InitSymDiff ==
    /\ call \in DiffShapeCalls
    /\ ret = NotCalled

DoErfSymDiff ==
    /\ call.op = "erf" /\ ret = NotCalled
    /\ ret' = SymDiffNodes("erfDiff", erfSymDiffShapes(call.x))
    /\ UNCHANGED call

DoErfinvSymDiff ==
    /\ call.op = "erfinv" /\ ret = NotCalled
    /\ ret' = SymDiffNodes("erfinvDiff", erfinvSymDiffShapes(call.x))
    /\ UNCHANGED call

DoClampSymDiff ==
    /\ call.op = "clamp" /\ ret = NotCalled
    /\ ret' = SymDiffNodes("clampDiff", clampSymDiffShapes(call.x))
    /\ UNCHANGED call

DoRepeatSymDiff ==
    /\ call.op = "repeat" /\ ret = NotCalled
    /\ ret' = SymDiffNodes("repeatDiffDo",
                  repeatSymDiffShapes(repeatOp(call.axis, Len(call.x), call.repeats),
                                      call.x))
    /\ UNCHANGED call

DoGatherSymDiff ==
    /\ call.op = "gather" /\ ret = NotCalled
    /\ ret' = SymDiffNodes("gatherDiff", gatherSymDiffShapes(call.x, call.indices))
    /\ UNCHANGED call

NextSymDiff ==
    \/ DoErfSymDiff
    \/ DoErfinvSymDiff
    \/ DoClampSymDiff
    \/ DoRepeatSymDiff
    \/ DoGatherSymDiff

SpecSymDiff == InitSymDiff /\ [][NextSymDiff]_vars

\* C27: SymDiff of erf, erfinv, clamp, repeat and gather returns exactly
\* one node, the paired gradient operator applied to as many inputs as the
\* gradient operator's Arity() reports, so that its arity check accepts
\* them.
C27_SymDiffMatchesArity ==
    ret # NotCalled =>
        /\ Len(ret.nodes) = 1
        /\ Len(ret.nodes[1].inputs) = ArityOf(ret.nodes[1].op)
        /\ CheckArity(ArityOf(ret.nodes[1].op), Len(ret.nodes[1].inputs))

----------------------------------------------------------------------------
(* op.go: SqueezeAll and SqueezeAllBut on every node                       *)

\* The number of iterations of SqueezeAllBut's loop, from scan index
\* dimToSqueeze, for a node with at least one axis
RECURSIVE SqueezeAllButScan(_, _, _)
SqueezeAllButScan(x, axis, dimToSqueeze) ==
    IF x.shape[dimToSqueeze + 1] = 1 /\ dimToSqueeze # axis
    THEN LET sq == Squeeze(x, dimToSqueeze).val
         IN  IF dimToSqueeze >= Dims(sq) THEN 1
             ELSE 1 + SqueezeAllButScan(sq, RenumberAxis(axis, dimToSqueeze),
                                        dimToSqueeze)
    ELSE IF dimToSqueeze + 1 >= Dims(x) THEN 1
         ELSE 1 + SqueezeAllButScan(x, axis, dimToSqueeze + 1)

SqueezeAllCalls ==
    {c \in SqueezeCalls : c.op = "SqueezeAllBut" /\ c.axis >= 0}
    \cup {[op |-> "SqueezeAll", x |-> Iota(s), axis |-> -1] : s \in Shapes}

InitSqueezeAll ==
    /\ call \in SqueezeAllCalls
    /\ ret = NotCalled

DoSqueezeAll ==
    /\ call.op = "SqueezeAll" /\ ret = NotCalled
    /\ ret' = WithX(SqueezeAll(call.x), call.x.shape)
    /\ UNCHANGED call

NextSqueezeAll == DoSqueezeAll \/ DoSqueezeAllBut

SpecSqueezeAll == InitSqueezeAll /\ [][NextSqueezeAll]_vars

\* The axes SqueezeAllBut has to keep: keepAxis and every axis of extent
\* other than 1
KeptAxes(s, keepAxis) == {k \in 0..(Len(s) - 1) : k = keepAxis \/ s[k + 1] # 1}
KeptShape(s, keepAxis) ==
    [i \in 1..Cardinality(KeptAxes(s, keepAxis)) |->
        s[1 + CHOOSE k \in KeptAxes(s, keepAxis) :
                  Cardinality({j \in KeptAxes(s, keepAxis) : j < k}) = i - 1]]

\* C25: for a node with at least one axis and a keepAxis among its axes,
\* SqueezeAllBut ends after one scan (as many iterations as the node has
\* axes) and returns the node's elements under the shape made of axis
\* keepAxis and of all axes of extent other than 1, in their order; the
\* kept axis is at index keepAxis - countOnesBefore(shape, keepAxis).
C25_SqueezeAllBut ==
    (/\ ret # NotCalled /\ call.op = "SqueezeAllBut"
     /\ call.axis >= 0 /\ call.axis < Dims(call.x)) =>
        LET s == call.x.shape
            newAxis == call.axis - countOnesBefore(s, call.axis)
        IN  /\ ret.kind = "ok"
            /\ ret.val = [shape |-> KeptShape(s, call.axis), data |-> call.x.data]
            /\ SqueezeAllButScan(call.x, call.axis, 0) = Dims(call.x)
            /\ newAxis = Cardinality({j \in KeptAxes(s, call.axis) : j < call.axis})
            /\ ret.val.shape[newAxis + 1] = s[call.axis + 1]

C25_Witness ==
    /\ ret # NotCalled /\ call.op = "SqueezeAllBut" /\ ret.kind = "ok"
    /\ call.x.shape = <<1, 1, 3>> /\ call.axis = 1
    /\ ret.val.shape = <<1, 3>>

\* C28: SqueezeAll and SqueezeAllBut return normally, with a node or an
\* error value, for every node: they never index the shape past its end.
C28_NoIndexOutOfRange ==
    ret # NotCalled => ret.kind \in {"ok", "err"}

----------------------------------------------------------------------------
(* op_repeat.go: the shape of repeatDiffOp.Do's result                     *)

\* C26: for an upstream gradient whose extent along axis is a positive
\* multiple of repeats, repeatDiffOp.Do returns a tensor of the shape that
\* repeatDiffOp.InferShape computes from the gradient's shape.
C26_DoShapeIsInferShape ==
    ret # NotCalled =>
        /\ ret.kind = "ok"
        /\ ret.val.shape =
               repeatDiffInferShape(repeatOp(call.axis, Dims(call.x), call.repeats),
                                    <<call.grad.shape>>).val

----------------------------------------------------------------------------
(* distribution/op.go, op_normal_sample.go: the sampling operator on       *)
(* tensors of each element type                                             *)

\* NormalSample on nodes of element types dt and stdDt
NormalSampleOfType(dt, stdDt, mean, stddev, seed, numSamples) ==
    IF dt # stdDt THEN Err
    ELSE IF ~ShapeEq(mean.shape, stddev.shape) THEN Err
    ELSE newNormalSampleOp(dt, seed, numSamples, mean.shape)

\* normalSampleOp.Do on tensors of element type dt: after checkInputs,
\* which compares dt with the operator's, every element of mean and std
\* is asserted to be a float64
normalSampleOpDoOn(dt, heap, op, inputs) ==
    IF normalSampleCheckInputs(op, heap, inputs) # "ok"
    THEN normalSampleOpDo(heap, op, inputs)
    ELSE IF dt # op.dt THEN Failed(heap)
    ELSE IF dt # "Float64" THEN [kind |-> "panic", heap |-> heap]
    ELSE LET r == normalSampleOpDo(heap, op, inputs)
         IN  [kind |-> r.kind, heap |-> r.heap, out |-> r.out, dt |-> op.dt]

TypedSampleCalls ==
    {[op |-> "NormalSample", dt |-> t, stdDt |-> u, numSamples |-> n,
      mean |-> x, stddev |-> Ones(x.shape)] :
        t \in Dtypes, u \in Dtypes, n \in 0..MaxSamples, x \in SmallVectors}

InitTyped ==
    /\ call \in TypedSampleCalls
    /\ ret = NotCalled

\* NormalSample builds the operator
DoNormalSampleOfType ==
    /\ call.op = "NormalSample" /\ ret = NotCalled
    /\ ret' = NormalSampleOfType(call.dt, call.stdDt, call.mean, call.stddev,
                                 1, call.numSamples)
    /\ UNCHANGED call

\* The node is executed on the values of mean and stddev
DoExecute ==
    /\ call.op = "NormalSample" /\ ret.kind = "ok"
    /\ ret' = [kind |-> "ran",
               result |-> normalSampleOpDoOn(call.dt,
                              <<call.mean.data, call.stddev.data>>, ret.val,
                              <<Val(1, call.mean.shape, "tensor"),
                                Val(2, call.stddev.shape, "tensor")>>)]
    /\ UNCHANGED call

NextTyped == DoNormalSampleOfType \/ DoExecute

SpecTyped == InitTyped /\ [][NextTyped]_vars

\* C29: for float32 and for float64, executing the sampling operator on
\* mean and stddev tensors of that type and of the operator's shape
\* completes normally and returns a tensor of that type with shape
\* [numSamples] followed by the operator's shape.
C29_BothFloatTypesRun ==
    (ret.kind = "ran" /\ call.dt \in {"Float32", "Float64"}) =>
        /\ ret.result.kind = "ok"
        /\ ret.result.dt = call.dt
        /\ ret.result.out.shape = <<call.numSamples>> \o call.mean.shape


====
